---- MODULE Spec2Model ----
(***************************************************************************)
(* A model of the ssh-web session bridge: the client-held session record   *)
(* store (lib/ssh-session-store.ts), the WebSocket server                  *)
(* (lib/ssh-server.ts) and the client reconnection controller              *)
(* (components/SshTerminalTab.tsx).                                        *)
(***************************************************************************)
EXTENDS Integers, Sequences, FiniteSets, TLC

VARIABLES
    \* ---- session record store (browser) ----
    store,          \* the SshSessionStore value handed to saveSessionStore
    storage,        \* localStorage[STORAGE_KEY]: NoItem or the parsed JSON text
    legacy,         \* localStorage[LEGACY_STORAGE_KEY]: Absent or its text
    lib,            \* the session-store call in hand (see Call)
    mgr,            \* the tab manager's state (see Unmounted)
    \* ---- client reconnection controller (one SshTerminalTab) ----
    tab,            \* the tab's refs and state (see InitTab)
    urlValid,       \* whether `new WebSocket(websocketUrl)` constructs or throws
    hist,           \* what has happened to the tab since it was first activated
    sel,            \* the session selector (see InitSel)
    \* ---- WebSocket server ----
    srv,            \* transports, connections and tmux sessions (see InitSrv)
    tmuxAvailable   \* ssh-server.ts:64

storeVars == <<store, storage, legacy, lib, mgr>>
clientVars == <<tab, urlValid, hist, sel>>
serverVars == <<srv, tmuxAvailable>>
vars == <<store, storage, legacy, lib, mgr, tab, urlValid, hist, sel, srv, tmuxAvailable>>

(***************************************************************************)
(* Session record store                                                    *)
(***************************************************************************)

CURRENT_VERSION == 1

\* localStorage.getItem returns null for a key that was never written.
NoItem == [absent |-> TRUE]

\* A JavaScript object is a function from its own enumerable keys to values;
\* a key whose value is undefined holds the string "undefined". A record's
\* remoteInfo key is either absent or holds an object.
Undefined == "undefined"

\* Object rest destructuring `const { k1, .., kn, ...rest } = obj`: rest holds
\* every own key of obj that is not one of the picked keys.
RestOf(obj, picked) == [k \in (DOMAIN obj) \ picked |-> obj[k]]

\* JSON.stringify followed by JSON.parse of a plain object: keys whose value is
\* undefined are not written.
JsonObject(obj) == [k \in {x \in DOMAIN obj : obj[x] # Undefined} |-> obj[k]]

\* JSON text of one session record (remoteInfo is a nested object).
JsonSession(s) ==
    LET keys == {k \in DOMAIN s : k = "remoteInfo" \/ s[k] # Undefined}
    IN  [k \in keys |-> IF k = "remoteInfo" THEN JsonObject(s[k]) ELSE s[k]]

\* JSON text of a store.
JsonStore(st) ==
    [version |-> st.version,
     activeSessionId |-> st.activeSessionId,
     sessions |-> [i \in DOMAIN st.sessions |-> JsonSession(st.sessions[i])]]

\* The map callback leaving the whole remoteInfo out.
SanitizeSession_DropsRemoteInfo(session) ==
    [k \in DOMAIN session \ {"remoteInfo"} |-> session[k]]

\* part_000:66-73, the map callback of saveSessionStore: the rest pattern names
\* no key to leave out.
SanitizeSession(session) ==
    IF "remoteInfo" \in DOMAIN session
    THEN [session EXCEPT !.remoteInfo = RestOf(session.remoteInfo, {})]
    ELSE session

sanitizedStore(st) ==
    [st EXCEPT !.sessions = [i \in DOMAIN st.sessions |-> SanitizeSession(st.sessions[i])]]

\* part_000:84, store.sessions.find(s => s.id === store.activeSessionId)
FindActive(st) ==
    LET hits == {i \in DOMAIN st.sessions : st.sessions[i].id = st.activeSessionId}
    IN  IF hits = {} THEN <<>>
        ELSE <<st.sessions[CHOOSE i \in hits : \A j \in hits : i <= j]>>

\* part_000:86-90
minimalStore(st) ==
    [version |-> CURRENT_VERSION,
     activeSessionId |-> st.activeSessionId,
     sessions |-> FindActive(st)]

\* What localStorage holds after saveSessionStore(st), given how the two
\* setItem calls end. first: "ok" | "quota" (QuotaExceededError) | "other";
\* retry: "ok" | "fail".
SavedItem(st, old, first, retry) ==
    IF first = "ok" THEN JsonStore(sanitizedStore(st))
    ELSE IF first = "quota" /\ FindActive(st) # <<>> /\ retry = "ok"
         THEN JsonStore(minimalStore(st))
         ELSE old

SetItemOutcomes == {"ok", "quota", "other"}
RetryOutcomes == {"ok", "fail"}

saveSessionStore(first, retry) ==
    /\ storage' = SavedItem(store, storage, first, retry)
    /\ UNCHANGED <<store, legacy, lib, mgr, clientVars, serverVars>>

--------------------------------------------------------------------------
\* Bounded inputs of the store operations.

MaxSessions == 2

SessionIds == {"ssh-a", "ssh-b"}

SecretValues == {"absent", Undefined, "s3cret"}

\* RemoteConnectionInfo as built by ConnectionSelector.handleConfirm: host and
\* authMethod always present, the credential fields present, undefined or absent.
MkRemoteInfo(m, pw, pp) ==
    LET keys == {"host", "authMethod"}
                 \cup (IF pw = "absent" THEN {} ELSE {"password"})
                 \cup (IF pp = "absent" THEN {} ELSE {"passphrase"})
    IN  [k \in keys |-> CASE k = "host" -> "example.org"
                          [] k = "authMethod" -> m
                          [] k = "password" -> pw
                          [] k = "passphrase" -> pp]

RemoteInfos ==
    {MkRemoteInfo(m, pw, pp) : m \in {"password", "privateKey"},
                               pw \in SecretValues, pp \in SecretValues}

LocalRecord(id) ==
    [id |-> id, name |-> "Terminal 1", tmuxSessionId |-> id, connectionType |-> "local"]

RemoteRecord(id, ri) ==
    [id |-> id, name |-> "Remote 1", tmuxSessionId |-> id, connectionType |-> "remote",
     remoteInfo |-> ri]

RecordsOf(id) == {LocalRecord(id)} \cup {RemoteRecord(id, ri) : ri \in RemoteInfos}

SeqsUpTo(S, n) == UNION {[1..k -> S] : k \in 0..n}

\* Session lists with unique ids, in display order.
SessionLists ==
    {ss \in SeqsUpTo(UNION {RecordsOf(id) : id \in SessionIds}, MaxSessions) :
        \A i, j \in DOMAIN ss : i # j => ss[i].id # ss[j].id}

Stores ==
    {[version |-> CURRENT_VERSION, activeSessionId |-> a, sessions |-> ss] :
        a \in SessionIds \cup {"null"}, ss \in SessionLists}

--------------------------------------------------------------------------
\* The session-store functions (lib/ssh-session-store.ts), on what JSON.parse
\* can hand them.

\* A key an object does not have.
Absent == "absent"

\* The object with the keys of f whose value is not Absent.
MkObj(f) == [k \in {x \in DOMAIN f : f[x] # Absent} |-> f[k]]

\* JSON null where an object is expected: reading a property of it throws.
JsNull == [jsnull |-> TRUE]

\* A localStorage item JSON.parse throws on.
CorruptItem == [corrupt |-> TRUE]

IsPlainObject(x) == DOMAIN x \cap {"jsnull", "corrupt", "absent"} = {}

\* How a call ends: it returns a value or it throws.
Returns(v) == [threw |-> FALSE, value |-> v]
Throws == [threw |-> TRUE, value |-> "TypeError"]

\* obj[k] for a key holding a string: undefined when obj has no such key.
Get(obj, k) == IF k \in DOMAIN obj THEN obj[k] ELSE Undefined

\* !!obj[k] for a key holding a string or null ("null").
Truthy(obj, k) == Get(obj, k) \notin {Undefined, "null", ""}

\* { ...obj, [k]: v }
WithKey(obj, k, v) == [x \in DOMAIN obj \cup {k} |-> IF x = k THEN v ELSE obj[x]]

\* A JavaScript number that may be NaN. Times are counted in days.
Num(n) == [nan |-> FALSE, n |-> n]
NaN == [nan |-> TRUE, n |-> 0]
Minus(a, b) == IF a.nan \/ b.nan THEN NaN ELSE Num(a.n - b.n)
GreaterThan(a, b) == ~a.nan /\ ~b.nan /\ a.n > b.n

\* Date.now(), in days.
Now == 20

\* MAX_AGE_DAYS, part_000:21.
MAX_AGE_DAYS == 3

\* new Date(x).getTime() for the timestamps in use: an ISO string is the
\* day it names, null is the epoch, anything else (undefined, text that is
\* not a date) is NaN.
DateStrings ==
    [d \in {"2026-01-20T00:00:00.000Z", "2026-01-17T00:00:00.000Z",
            "2026-01-16T00:00:00.000Z", "2026-01-10T00:00:00.000Z"} |->
        CASE d = "2026-01-20T00:00:00.000Z" -> 20
          [] d = "2026-01-17T00:00:00.000Z" -> 17
          [] d = "2026-01-16T00:00:00.000Z" -> 16
          [] d = "2026-01-10T00:00:00.000Z" -> 10]

NowString == "2026-01-20T00:00:00.000Z"

GetTime(x) ==
    IF x \in DOMAIN DateStrings THEN Num(DateStrings[x])
    ELSE IF x = "null" THEN Num(0)
    ELSE NaN

\* part_000:279-283 and 295-299: the sessions of a migrated store.
\* s.connectionType throws for a null element.
MigratedSessions(st) ==
    IF "sessions" \notin DOMAIN st THEN Returns(<<>>)
    ELSE IF \E i \in DOMAIN st.sessions : ~IsPlainObject(st.sessions[i]) THEN Throws
    ELSE Returns([i \in DOMAIN st.sessions |->
                    WithKey(st.sessions[i], "connectionType",
                            IF Truthy(st.sessions[i], "connectionType")
                            THEN st.sessions[i].connectionType ELSE "local")])

\* migrateSessionStore without the connectionType backfill in the upgrade
\* from version 0.
migrateSessionStore_NoBackfillOnUpgrade(st) ==
    IF ~IsPlainObject(st) THEN Throws
    ELSE LET version  == IF "version" \in DOMAIN st THEN st.version ELSE 0
             sessions == MigratedSessions(st)
         IN  IF version = 0
             THEN IF sessions.threw THEN Throws
                  ELSE Returns([version |-> CURRENT_VERSION,
                                activeSessionId |-> IF Truthy(st, "activeSessionId")
                                                    THEN st.activeSessionId ELSE "null",
                                sessions |-> IF "sessions" \in DOMAIN st
                                             THEN st.sessions ELSE <<>>])
             ELSE IF version = CURRENT_VERSION
             THEN IF sessions.threw THEN Throws
                  ELSE Returns(WithKey(st, "sessions", sessions.value))
             ELSE Returns(st)

\* part_000:270-310. store.version throws for null.
migrateSessionStore(st) ==
    IF ~IsPlainObject(st) THEN Throws
    ELSE LET version  == IF "version" \in DOMAIN st THEN st.version ELSE 0
             sessions == MigratedSessions(st)
         IN  IF version = 0
             THEN IF sessions.threw THEN Throws
                  ELSE Returns([version |-> CURRENT_VERSION,
                                activeSessionId |-> IF Truthy(st, "activeSessionId")
                                                    THEN st.activeSessionId ELSE "null",
                                sessions |-> sessions.value])
             ELSE IF version = CURRENT_VERSION
             THEN IF sessions.threw THEN Throws
                  ELSE Returns(WithKey(st, "sessions", sessions.value))
             ELSE Returns(st)

EmptyStore == [version |-> CURRENT_VERSION, activeSessionId |-> "null", sessions |-> <<>>]

\* part_000:30-49: what a load returns for the localStorage item.
getSessionStore(item) ==
    IF item = NoItem \/ item = CorruptItem THEN EmptyStore
    ELSE LET migrated == migrateSessionStore(item)
         IN  IF migrated.threw THEN EmptyStore ELSE migrated.value

\* part_000:327-337, the filter callback.
IsValidSession(session) ==
    Truthy(session, "id") /\ Truthy(session, "name") /\ Truthy(session, "tmuxSessionId")

\* part_000:332-335
WithConnectionType(session) ==
    IF Truthy(session, "connectionType") THEN session
    ELSE WithKey(session, "connectionType", "local")

RECURSIVE Filter(_, _)
\* Array.prototype.filter with the callback keep(element) = TRUE for the
\* elements of the set kept.
Filter(seq, kept) ==
    IF seq = <<>> THEN <<>>
    ELSE IF Head(seq) \in kept THEN <<Head(seq)>> \o Filter(Tail(seq), kept)
    ELSE Filter(Tail(seq), kept)

\* part_000:319-349. session.id throws for a null element.
validateSessionStore(st) ==
    LET sessions0 == IF "sessions" \in DOMAIN st THEN st.sessions ELSE <<>>
    IN  IF \E i \in DOMAIN sessions0 : ~IsPlainObject(sessions0[i]) THEN Throws
        ELSE
        LET valid    == {sessions0[i] : i \in {j \in DOMAIN sessions0 : IsValidSession(sessions0[j])}}
            filtered == Filter(sessions0, valid)
            sessions == [i \in DOMAIN filtered |-> WithConnectionType(filtered[i])]
            store1   == WithKey(st, "sessions", sessions)
            activeExists == \E i \in DOMAIN sessions :
                               sessions[i].id = st.activeSessionId
        IN  Returns(IF Truthy(st, "activeSessionId") /\ ~activeExists
                    THEN WithKey(store1, "activeSessionId", "null")
                    ELSE store1)

\* The filter callback keeping a record only if its age is known to be
\* within the limit.
CleanupVerdict_KeepsOnlyYoung(session, maxAgeDays) ==
    IF ~IsPlainObject(session) THEN "throw"
    ELSE LET lastAccessed == GetTime(Get(session, "lastAccessedAt"))
             age          == Minus(Num(Now), lastAccessed)
         IN  IF age.nan \/ GreaterThan(age, maxAgeDays) THEN "remove" ELSE "keep"

\* part_000:190-208, the filter callback of cleanupOldSessions: "keep",
\* "remove", or "throw" (a null element throws in the try block and again in
\* the catch block, which reads session.id).
CleanupVerdict(session, maxAgeDays) ==
    IF ~IsPlainObject(session) THEN "throw"
    ELSE LET lastAccessed == GetTime(Get(session, "lastAccessedAt"))
             age          == Minus(Num(Now), lastAccessed)
         IN  IF GreaterThan(age, maxAgeDays) THEN "remove" ELSE "keep"

\* part_000:183-209
cleanupOldSessions(sessions, maxAgeDays) ==
    IF \E i \in DOMAIN sessions : CleanupVerdict(sessions[i], maxAgeDays) = "throw"
    THEN Throws
    ELSE Returns(Filter(sessions,
                        {sessions[i] : i \in {j \in DOMAIN sessions :
                                  CleanupVerdict(sessions[j], maxAgeDays) = "keep"}}))

\* parseInt(d, 10) for the digit strings \d+ can match in the names in use.
DigitStrings ==
    [d \in {"0", "1", "2", "3", "4", "03"} |->
        CASE d = "0" -> 0 [] d = "1" -> 1 [] d = "2" -> 2
          [] d = "3" -> 3 [] d = "4" -> 4 [] d = "03" -> 3]

\* part_000:368-369: the number of a name matching ^<prefix> (\d+)$, else 0.
NameNumber(name, prefix) ==
    LET matches == {d \in DOMAIN DigitStrings : name = prefix \o " " \o d}
    IN  IF matches = {} THEN 0 ELSE DigitStrings[CHOOSE d \in matches : TRUE]

Max(S) == CHOOSE n \in S : \A m \in S : m <= n

\* part_000:358-380
getNextTerminalName(existingSessions, connectionType) ==
    LET prefix  == IF connectionType = "local" THEN "Terminal" ELSE "Remote"
        numbers == {NameNumber(existingSessions[i].name, prefix) :
                       i \in {j \in DOMAIN existingSessions :
                                 Get(existingSessions[j], "connectionType") = connectionType}}
                   \ {0}
    IN  IF numbers = {} THEN prefix \o " 1"
        ELSE prefix \o " " \o ToString(Max(numbers) + 1)

\* part_000:110-128. The remoteInfo key, undefined for a local session, is
\* left out as JSON.stringify leaves it out.
createSession(id, name, connectionType) ==
    [id |-> id, name |-> name, tmuxSessionId |-> id, createdAt |-> NowString,
     lastAccessedAt |-> NowString, isActive |-> "false", connectionType |-> connectionType]

\* MAX_TABS, part_000:18.
MAX_TABS == 5

\* part_000:388-390
isMaxTabsReached(sessions) == Len(sessions) >= MAX_TABS

\* part_000:233-247, the store migrateFromLegacySession builds.
LegacyStore(legacySessionId) ==
    [version |-> CURRENT_VERSION, activeSessionId |-> legacySessionId,
     sessions |-> <<[id |-> legacySessionId, name |-> "Terminal 1",
                     tmuxSessionId |-> legacySessionId, createdAt |-> NowString,
                     lastAccessedAt |-> NowString, isActive |-> "true",
                     connectionType |-> "local"]>>]

\* migrateFromLegacySession without the removal of the legacy item.
migrateFromLegacySession_KeepsMarker(item, legacyItem, first, retry) ==
    IF legacyItem \in {Absent, ""}
    THEN [result |-> Returns(JsNull), item |-> item, legacyItem |-> legacyItem]
    ELSE [result |-> Returns(LegacyStore(legacyItem)),
          item |-> SavedItem(LegacyStore(legacyItem), item, first, retry),
          legacyItem |-> legacyItem]

\* part_000:217-261, migrateFromLegacySession: how the call ends (JsNull for
\* null) and the two localStorage items after it.
migrateFromLegacySession(item, legacyItem, first, retry) ==
    IF legacyItem \in {Absent, ""}
    THEN [result |-> Returns(JsNull), item |-> item, legacyItem |-> legacyItem]
    ELSE [result |-> Returns(LegacyStore(legacyItem)),
          item |-> SavedItem(LegacyStore(legacyItem), item, first, retry),
          legacyItem |-> Absent]

\* The id createSession draws for the first session of an empty store.
FirstId == "ssh-first"

\* initializeSessionStore runs in steps, each on the state s of the call:
\* store, the store in hand; item and legacyItem, the two localStorage
\* items; threw, whether the call has thrown. first, retry: how the setItem
\* calls of a save end.

\* part_000:400 with migrateFromLegacySession, 217-261.
LoadedStore(item, legacyItem, first, retry) ==
    IF legacyItem \notin {Absent, ""}
    THEN [store |-> LegacyStore(legacyItem),
          item |-> SavedItem(LegacyStore(legacyItem), item, first, retry),
          legacyItem |-> Absent, threw |-> FALSE]
    ELSE [store |-> getSessionStore(item), item |-> item, legacyItem |-> legacyItem,
          threw |-> FALSE]

\* part_000:408-410
ClearRemovedActive(st) ==
    IF /\ Truthy(st, "activeSessionId")
       /\ ~\E i \in DOMAIN st.sessions : Get(st.sessions[i], "id") = st.activeSessionId
    THEN WithKey(st, "activeSessionId", "null")
    ELSE st

\* part_000:405-411
WithCleaned(s, cleaned) ==
    IF cleaned.threw THEN [s EXCEPT !.threw = TRUE]
    ELSE IF Len(cleaned.value) # Len(s.store.sessions)
    THEN [s EXCEPT !.store = ClearRemovedActive(WithKey(@, "sessions", cleaned.value))]
    ELSE s

\* part_000:403-412. store.sessions.length throws when there is no sessions.
CleanupStep(s) ==
    IF "sessions" \notin DOMAIN s.store THEN [s EXCEPT !.threw = TRUE]
    ELSE IF Len(s.store.sessions) > 0
    THEN WithCleaned(s, cleanupOldSessions(s.store.sessions, Num(MAX_AGE_DAYS)))
    ELSE s

WithValidated(s, validated) ==
    IF validated.threw THEN [s EXCEPT !.threw = TRUE]
    ELSE [s EXCEPT !.store = validated.value]

\* part_000:415
ValidateStep(s) ==
    IF s.threw THEN s ELSE WithValidated(s, validateSessionStore(s.store))

SaveStep(s, first, retry) ==
    [s EXCEPT !.item = SavedItem(s.store, s.item, first, retry)]

\* part_000:418-423
FirstSessionStep(s, first, retry) ==
    IF s.threw THEN s
    ELSE IF Len(s.store.sessions) = 0
    THEN SaveStep([s EXCEPT !.store =
                      WithKey(WithKey(@, "sessions",
                                      <<createSession(FirstId, "Terminal 1", "local")>>),
                              "activeSessionId", FirstId)],
                  first, retry)
    ELSE s

\* part_000:426-429
ActiveSessionStep(s, first, retry) ==
    IF s.threw THEN s
    ELSE IF ~Truthy(s.store, "activeSessionId") /\ Len(s.store.sessions) > 0
    THEN SaveStep([s EXCEPT !.store = WithKey(@, "activeSessionId", @.sessions[1].id)],
                  first, retry)
    ELSE s

\* How the call ends, and the two localStorage items after it.
Outcome(s) ==
    [result |-> IF s.threw THEN Throws ELSE Returns(s.store),
     item |-> s.item, legacyItem |-> s.legacyItem]

\* part_000:398-432
initializeSessionStore(item, legacyItem, first, retry) ==
    Outcome(ActiveSessionStep(
                FirstSessionStep(
                    ValidateStep(CleanupStep(LoadedStore(item, legacyItem, first, retry))),
                    first, retry),
                first, retry))

--------------------------------------------------------------------------
\* Calls of the session-store functions. lib is the call in hand: fn, the
\* function; arg, its arguments; calls, how often it has been applied;
\* result, how the last application ended.

\* Records in one list handed to a session-store function.
MaxRecords == 2

Pending == [threw |-> FALSE, value |-> "pending"]

Call(fn, arg) == [fn |-> fn, arg |-> arg, calls |-> 0, result |-> Pending]

NoCall == Call("none", <<>>)

\* A parsed store object: version and sessions are given as <<value>>, or as
\* <<>> for a missing key; activeSessionId and theme (a key the program does
\* not know) as a string, or Absent.
RawStore(version, activeSessionId, sessions, theme) ==
    LET o1 == MkObj([activeSessionId |-> activeSessionId, theme |-> theme])
        o2 == IF version = <<>> THEN o1 ELSE WithKey(o1, "version", version[1])
    IN  IF sessions = <<>> THEN o2 ELSE WithKey(o2, "sessions", sessions[1])

\* What validateSessionStore may be handed.
ValidateRecords ==
    {MkObj([id |-> i, name |-> n, tmuxSessionId |-> t, connectionType |-> c]) :
        i \in {Absent, "", "ssh-a", "ssh-b"}, n \in {Absent, "", "Terminal 1"},
        t \in {Absent, "", "ssh-a"}, c \in {Absent, "remote"}}

ValidateStores ==
    {RawStore(<<CURRENT_VERSION>>, a, <<ss>>, Absent) :
        a \in {Absent, "null", "", "ssh-a", "ssh-zz"},
        ss \in SeqsUpTo(ValidateRecords \cup {JsNull}, MaxRecords)}
    \cup {RawStore(<<CURRENT_VERSION>>, a, <<>>, Absent) : a \in {"null", "ssh-a"}}

\* What JSON.parse may hand migrateSessionStore.
MigrateRecords ==
    {MkObj([id |-> "ssh-a", connectionType |-> c]) :
        c \in {Absent, "null", "", "local", "remote"}} \cup {JsNull}

MigrateStores ==
    {RawStore(<<v>>, a, <<ss>>, x) :
        v \in {0, 1, 2}, a \in {Absent, "null", "", "ssh-a"},
        ss \in SeqsUpTo(MigrateRecords, MaxRecords), x \in {Absent, "dark"}}
    \cup {RawStore(<<>>, a, <<ss>>, Absent) :
            a \in {Absent, "ssh-a"}, ss \in SeqsUpTo(MigrateRecords, MaxRecords)}
    \cup {RawStore(<<v>>, "ssh-a", <<>>, Absent) : v \in {0, 1, 2}}

\* What cleanupOldSessions may be handed.
CleanupRecords ==
    {MkObj([id |-> i, lastAccessedAt |-> d]) :
        i \in {"ssh-a", "ssh-b"},
        d \in DOMAIN DateStrings \cup {Absent, "null", "", "yesterday"}}

AgeLimits == {Num(-1), Num(0), Num(MAX_AGE_DAYS), Num(30), NaN}

\* What getNextTerminalName may be handed.
Names ==
    {"Terminal 1", "Terminal 3", "Terminal 03", "Terminal 0", "Terminal", "Terminal 2 (old)",
     "Remote 2", "logs"}

NameRecords ==
    {MkObj([name |-> n, connectionType |-> c]) :
        n \in Names, c \in {Absent, "local", "remote"}}

\* What localStorage may hold when the page loads.
PersistedRecords ==
    {MkObj([id |-> "ssh-a", name |-> "Terminal 1", tmuxSessionId |-> "ssh-a",
            lastAccessedAt |-> d]) : d \in {"2026-01-20T00:00:00.000Z",
                                            "2026-01-10T00:00:00.000Z", "yesterday"}}
    \cup {MkObj([id |-> "ssh-b", name |-> n, tmuxSessionId |-> "ssh-b",
                 lastAccessedAt |-> "2026-01-17T00:00:00.000Z", connectionType |-> "remote"]) :
             n \in {Absent, "Remote 1"}}
    \cup {JsNull}

PersistedItems ==
    {NoItem, CorruptItem, JsNull}
    \cup {RawStore(<<v>>, a, <<ss>>, Absent) :
            v \in {0, 1, 2}, a \in {Absent, "null", "ssh-a", "ssh-zz"},
            ss \in SeqsUpTo(PersistedRecords, MaxRecords)}
    \cup {RawStore(<<v>>, a, <<>>, Absent) : v \in {0, 1, 2}, a \in {"null", "ssh-a"}}
    \cup {RawStore(<<>>, "ssh-a", <<ss>>, Absent) :
            ss \in SeqsUpTo(PersistedRecords, MaxRecords)}

LegacyItems == {Absent, "", "ssh-old"}

Validate ==
    /\ lib.fn = "validate" /\ lib.calls = 0
    /\ lib' = [lib EXCEPT !.calls = 1, !.result = validateSessionStore(lib.arg[1])]
    /\ UNCHANGED <<store, storage, legacy, mgr, clientVars, serverVars>>

\* migrateSessionStore applied to the raw store, and again to its result.
Migrate ==
    /\ lib.fn = "migrate" /\ lib.calls < 2 /\ ~lib.result.threw
    /\ lib' = [lib EXCEPT !.calls = @ + 1,
                          !.result = migrateSessionStore(IF lib.calls = 0 THEN lib.arg[1]
                                                         ELSE lib.result.value)]
    /\ UNCHANGED <<store, storage, legacy, mgr, clientVars, serverVars>>

Cleanup ==
    /\ lib.fn = "cleanup" /\ lib.calls = 0
    /\ lib' = [lib EXCEPT !.calls = 1,
                          !.result = cleanupOldSessions(lib.arg[1], lib.arg[2])]
    /\ UNCHANGED <<store, storage, legacy, mgr, clientVars, serverVars>>

NextName ==
    /\ lib.fn = "nextName" /\ lib.calls = 0
    /\ lib' = [lib EXCEPT !.calls = 1,
                          !.result = Returns(getNextTerminalName(lib.arg[1], lib.arg[2]))]
    /\ UNCHANGED <<store, storage, legacy, mgr, clientVars, serverVars>>

\* saveSessionStore(store) by a caller that then loads.
Save(first, retry) ==
    /\ lib.fn = "roundtrip" /\ lib.calls = 0
    /\ saveSessionStore(first, retry)

\* getSessionStore()
Load ==
    /\ lib.fn = "roundtrip" /\ lib.calls = 0
    /\ lib' = [lib EXCEPT !.calls = 1, !.result = Returns(getSessionStore(storage))]
    /\ UNCHANGED <<store, storage, legacy, mgr, clientVars, serverVars>>

\* What SshRemoteConnection.connect may be handed: any JSON object of an
\* init message (ssh-server.ts:115, 122).
ConnectInfos ==
    {MkObj([host |-> "example.org", authMethod |-> m, password |-> pw,
            privateKey |-> pk, passphrase |-> pp]) :
        m \in {Absent, "password", "privateKey"}, pw \in {Absent, "", "s3cret"},
        pk \in {Absent, "", "/home/u/.ssh/id"}, pp \in {Absent, "words"}}

\* ssh-server.ts:871-956, SshRemoteConnection.connect up to client.connect:
\* the promise is rejected (threw), or client.connect is called with a
\* config that has the keys `value` besides host, port and username.
\* readable: whether fs.readFileSync(info.privateKey) returns.
SshConnect(info, readable) ==
    IF Get(info, "authMethod") = "password" /\ Truthy(info, "password")
    THEN Returns({"password"})
    ELSE IF Get(info, "authMethod") = "privateKey" /\ Truthy(info, "privateKey")
    THEN IF ~readable THEN Throws
         ELSE Returns({"privateKey"}
                      \cup IF Truthy(info, "passphrase") THEN {"passphrase"} ELSE {})
    ELSE Throws

\* new SshRemoteConnection().connect(remoteInfo)
RemoteConnect(readable) ==
    /\ lib.fn = "connect" /\ lib.calls = 0
    /\ lib' = [lib EXCEPT !.calls = 1, !.result = SshConnect(lib.arg[1], readable)]
    /\ UNCHANGED <<store, storage, legacy, mgr, clientVars, serverVars>>

\* migrateFromLegacySession(), and again.
MigrateLegacy(first, retry) ==
    /\ lib.fn = "migrateLegacy" /\ lib.calls < 2
    /\ LET out == migrateFromLegacySession(storage, legacy, first, retry)
       IN  /\ lib' = [lib EXCEPT !.calls = @ + 1, !.result = out.result]
           /\ storage' = out.item
           /\ legacy' = out.legacyItem
    /\ UNCHANGED <<store, mgr, clientVars, serverVars>>

\* initializeSessionStore()
Initialize(first, retry) ==
    /\ lib.fn = "initialize" /\ lib.calls = 0
    /\ LET out == initializeSessionStore(storage, legacy, first, retry)
       IN  /\ lib' = [lib EXCEPT !.calls = 1, !.result = out.result]
           /\ storage' = out.item
           /\ legacy' = out.legacyItem
    /\ UNCHANGED <<store, mgr, clientVars, serverVars>>

(***************************************************************************)
(* Tab manager (components/SshTabManager.tsx)                              *)
(***************************************************************************)

\* Sessions createSession makes for the tab manager in one run.
MaxCreated == 2

\* Times the tab manager is mounted in one run.
MaxManagerMounts == 1

\* Renames, reorderings, session updates and saves that meet a storage error
\* in one run.
MaxDetours == 1

\* SshTabManager.tsx:28-31, before the mount effect has run. created,
\* mounts, detours: how many sessions, mounts, and edits and failed saves
\* there have been.
Unmounted ==
    [loading |-> TRUE, sessions |-> <<>>, activeSessionId |-> "null",
     showMaxTabsWarning |-> FALSE, created |-> 0, mounts |-> 0, detours |-> 0]

\* The state m after a save that ended as `first`.
Saved(m, first) == [m EXCEPT !.detours = IF first = "ok" THEN @ ELSE @ + 1]

\* The id createSession draws for the n-th session of the tab manager.
NewId(n) == "ssh-" \o ToString(n)

\* Multiplexer session ids the session selector or the server may name.
TmuxIds == {"tm-x", "tm-y"}

\* Numbers of tabs an earlier visit may have left in localStorage.
StoredTabCounts == {0, MAX_TABS - 1, MAX_TABS}

\* The store an earlier visit held after n calls of handleCreateTab
\* (SshTabManager.tsx:95-109), the first tab active.
StoredTabs(n) ==
    [version |-> CURRENT_VERSION, activeSessionId |-> "ssh-s1",
     sessions |-> [i \in 1..n |-> createSession("ssh-s" \o ToString(i),
                                                "Terminal " \o ToString(i), "local")]]

\* SshTabManager.tsx:73-82, the save effect, run after a render that changed
\* sessions, activeSessionId or loading.
SaveEffect(m, item, first, retry) ==
    IF ~m.loading /\ Len(m.sessions) > 0
    THEN SavedItem([version |-> 1, activeSessionId |-> m.activeSessionId,
                    sessions |-> m.sessions], item, first, retry)
    ELSE item

\* The first index of a session of the list with tmuxSessionId = id, else 0.
FindByTmuxId(sessions, id) ==
    LET hits == {i \in DOMAIN sessions : sessions[i].tmuxSessionId = id}
    IN  IF hits = {} THEN 0 ELSE CHOOSE i \in hits : \A j \in hits : i <= j

IndexOf(sessions, id) ==
    LET hits == {i \in DOMAIN sessions : sessions[i].id = id}
    IN  IF hits = {} THEN 0 ELSE CHOOSE i \in hits : \A j \in hits : i <= j

\* SshTabManager.tsx:37-70, the mount effect, for the store initialize
\* returned. initial: the initialTmuxSessionId prop, "null" if none.
Mounted(m, st, initial) ==
    IF initial # "null"
    THEN LET existing == FindByTmuxId(st.sessions, initial)
         IN  IF existing # 0
             THEN [m EXCEPT !.loading = FALSE, !.sessions = st.sessions,
                            !.activeSessionId = st.sessions[existing].id]
             ELSE LET newSession ==
                         [createSession(NewId(m.created + 1),
                                        getNextTerminalName(st.sessions, "local"), "local")
                            EXCEPT !.tmuxSessionId = initial]
                  IN  [m EXCEPT !.loading = FALSE,
                                !.sessions = Append(st.sessions, newSession),
                                !.activeSessionId = newSession.id,
                                !.created = @ + 1]
    ELSE [m EXCEPT !.loading = FALSE, !.sessions = st.sessions,
                   !.activeSessionId = IF Truthy(st, "activeSessionId")
                                       THEN st.activeSessionId
                                       ELSE IF Len(st.sessions) > 0 THEN st.sessions[1].id
                                       ELSE "null"]

\* The tab manager is mounted: the mount effect, then the save effect. When
\* initializeSessionStore throws, the effect ends there.
ManagerMount(initial, first, retry) ==
    /\ mgr.loading
    /\ mgr.mounts < MaxManagerMounts
    /\ initial # "null" => mgr.created < MaxCreated
    /\ first # "ok" => mgr.detours < MaxDetours
    /\ LET out == initializeSessionStore(storage, legacy, first, retry)
           m0  == [mgr EXCEPT !.mounts = @ + 1]
           m1  == IF out.result.threw THEN m0 ELSE Mounted(m0, out.result.value, initial)
       IN  /\ mgr' = Saved(m1, first)
           /\ storage' = SaveEffect(m1, out.item, first, retry)
           /\ legacy' = out.legacyItem
    /\ UNCHANGED <<store, lib, clientVars, serverVars>>

\* The page is left: the component state is gone, localStorage stays.
ManagerUnmount ==
    /\ ~mgr.loading
    /\ mgr' = [Unmounted EXCEPT !.created = mgr.created, !.mounts = mgr.mounts,
                                !.detours = mgr.detours]
    /\ UNCHANGED <<store, storage, legacy, lib, clientVars, serverVars>>

\* A handler has set the state to m: the render, then the save effect.
ManagerSets(m, first, retry) ==
    /\ first # "ok" => m.detours < MaxDetours
    /\ mgr' = Saved(m, first)
    /\ storage' = SaveEffect(m, storage, first, retry)
    /\ UNCHANGED <<store, legacy, lib, clientVars, serverVars>>

\* SshTabManager.tsx:95-109
handleCreateTab(first, retry) ==
    /\ ~mgr.loading
    /\ IF isMaxTabsReached(mgr.sessions)
       THEN ManagerSets([mgr EXCEPT !.showMaxTabsWarning = TRUE], first, retry)
       ELSE LET newSession == createSession(NewId(mgr.created + 1),
                                            getNextTerminalName(mgr.sessions, "local"),
                                            "local")
            IN  /\ mgr.created < MaxCreated
                /\ ManagerSets([mgr EXCEPT !.sessions = Append(@, newSession),
                                            !.activeSessionId = newSession.id,
                                            !.created = @ + 1], first, retry)

\* SshTabManager.tsx:85-92: the warning hides itself.
HideMaxTabsWarning ==
    /\ mgr.showMaxTabsWarning
    /\ mgr' = [mgr EXCEPT !.showMaxTabsWarning = FALSE]
    /\ UNCHANGED <<store, storage, legacy, lib, clientVars, serverVars>>

\* SshTabManager.tsx:112-131
handleTabSwitch(i, first, retry) ==
    /\ ~mgr.loading
    /\ i \in DOMAIN mgr.sessions
    /\ ManagerSets([mgr EXCEPT !.activeSessionId = mgr.sessions[i].id,
                               !.sessions[i].lastAccessedAt = NowString], first, retry)

\* The list without its i-th element.
Without(seq, i) == [j \in 1..(Len(seq) - 1) |-> IF j < i THEN seq[j] ELSE seq[j + 1]]

\* SshTabManager.tsx:134-163
handleTabClose(i, first, retry) ==
    /\ ~mgr.loading
    /\ i \in DOMAIN mgr.sessions
    /\ IF Len(mgr.sessions) = 1
       THEN /\ mgr.created < MaxCreated
            /\ ManagerSets([mgr EXCEPT !.sessions = <<createSession(NewId(mgr.created + 1),
                                                                    "Terminal 1", "local")>>,
                                       !.activeSessionId = NewId(mgr.created + 1),
                                       !.created = @ + 1], first, retry)
       ELSE LET newSessions == Without(mgr.sessions, i)
                newIndex    == IF i - 1 > 0 THEN i - 1 ELSE 1
            IN  ManagerSets([mgr EXCEPT !.sessions = newSessions,
                                        !.activeSessionId =
                                            IF mgr.sessions[i].id = mgr.activeSessionId
                                            THEN newSessions[newIndex].id ELSE @],
                            first, retry)

\* SshTabManager.tsx:134-163 as one call among several of the same handler
\* pass: handleTabClose reads the sessions and the activeSessionId of the
\* render it was made in (snap) and sets state by value, so what it sets
\* replaces what an earlier call of the pass has set (next).
TabCloseCall(snap, next, i) ==
    IF Len(snap.sessions) = 1
    THEN [next EXCEPT !.sessions = <<createSession(NewId(next.created + 1),
                                                   "Terminal 1", "local")>>,
                      !.activeSessionId = NewId(next.created + 1),
                      !.created = @ + 1]
    ELSE LET newSessions == Without(snap.sessions, i)
             newIndex    == IF i - 1 > 0 THEN i - 1 ELSE 1
         IN  [next EXCEPT !.sessions = newSessions,
                          !.activeSessionId =
                              IF snap.sessions[i].id = snap.activeSessionId
                              THEN newSessions[newIndex].id ELSE @]

\* sessions.forEach(session => onTabClose(session.id)) over the tabs at the
\* indices `closed`, in the order of the list.
RECURSIVE CloseEach(_, _, _)
CloseEach(snap, next, closed) ==
    IF closed = <<>> THEN next
    ELSE CloseEach(snap, TabCloseCall(snap, next, Head(closed)), Tail(closed))

\* The indices 1..n without `kept`, ascending.
RECURSIVE IndicesBut(_, _)
IndicesBut(n, kept) ==
    IF n = 0 THEN <<>>
    ELSE IF n = kept THEN IndicesBut(n - 1, kept)
    ELSE Append(IndicesBut(n - 1, kept), n)

\* ConnectionSelector.tsx:739-746 (the menu entry is disabled for a single
\* tab, 890), for the context menu of tab i.
handleCloseOtherTabs(i, first, retry) ==
    /\ ~mgr.loading
    /\ i \in DOMAIN mgr.sessions
    /\ Len(mgr.sessions) > 1
    /\ ManagerSets(CloseEach(mgr, mgr, IndicesBut(Len(mgr.sessions), i)), first, retry)

\* ConnectionSelector.tsx:748-753
handleCloseAllTabs(first, retry) ==
    /\ ~mgr.loading
    /\ mgr.sessions # <<>>
    /\ Len(mgr.sessions) = 1 => mgr.created < MaxCreated
    /\ ManagerSets(CloseEach(mgr, mgr, IndicesBut(Len(mgr.sessions), 0)), first, retry)

\* SshTabManager.tsx:166-176
handleTabRename(i, newName, first, retry) ==
    /\ ~mgr.loading
    /\ mgr.detours < MaxDetours
    /\ i \in DOMAIN mgr.sessions
    /\ ManagerSets([mgr EXCEPT !.sessions[i].name = newName, !.detours = @ + 1],
                   first, retry)

\* SshTabManager.tsx:179-182, for a drag of the first tab to the end.
handleReorderTabs(first, retry) ==
    /\ ~mgr.loading
    /\ mgr.detours < MaxDetours
    /\ Len(mgr.sessions) >= 2
    /\ ManagerSets([mgr EXCEPT !.sessions = Append(Tail(@), Head(@)), !.detours = @ + 1],
                   first, retry)

\* SshTabManager.tsx:185-212, for the update a terminal tab makes when the
\* server names the session (SshTerminalTab.tsx:165-168).
handleSessionUpdate(i, tmuxSessionId, first, retry) ==
    /\ ~mgr.loading
    /\ mgr.detours < MaxDetours
    /\ i \in DOMAIN mgr.sessions
    /\ ManagerSets([mgr EXCEPT !.sessions[i].tmuxSessionId = tmuxSessionId,
                               !.detours = @ + 1], first, retry)

(***************************************************************************)
(* Client reconnection controller (components/SshTerminalTab.tsx)          *)
(***************************************************************************)

maxReconnectAttempts == 5

\* Sockets the tab may construct in one run made only of abnormal closures,
\* opens and session_info messages (enough for a run of closures to exhaust
\* maxReconnectAttempts).
MaxSockets == 6

\* Sockets the tab may construct in a run with any other event in it.
MaxDetourSockets == 4

Sockets == 1..MaxSockets

\* Activations of the tab (runs of the terminal effect) in one run.
MaxMounts == 2

\* Close codes a close event can carry: 1000 normal, 1005 no status (a close
\* frame without a code, as the server's ws.close() sends), 1006 abnormal.
CloseCodes == {1000, 1005, 1006}

\* Session ids a session_info may carry; "" is a missing id.
WireIds == {"", "ssh-a", "ssh-g"}

\* A WebSocket object the tab has not constructed yet.
NoSocket ==
    [readyState |-> "NONE", connectionTimeout |-> FALSE, handlers |-> FALSE,
     everOpen |-> FALSE, closeArg |-> 0, initSent |-> "none", gotSessionInfo |-> FALSE]

\* A WebSocket object whose close event has been dispatched: nothing reads
\* what it was before.
ClosedSocket == [NoSocket EXCEPT !.readyState = "CLOSED"]

\* SshTerminalTab.tsx:24-43, the refs and state after the first render.
\* reconnectTimeoutRef: the ref holds a timer that is still pending.
\* orphanTimers: pending reconnect timers no ref holds any more.
\* sessionId: session.tmuxSessionId of the parent's record (sessionIdRef.current).
\* closureSessionId: session.tmuxSessionId as the effect's closures captured it.
\* error: the error state of line 42: "", "max" for the text of 353-356 (the
\* reconnect attempts are used up), "other" for any other text.
InitTab ==
    [mounted |-> FALSE,
     connectionState |-> "disconnected",
     reconnectAttempts |-> 0,
     isIntentionalDisconnect |-> FALSE,
     reconnectTimeoutRef |-> FALSE,
     orphanTimers |-> 0,
     wsRef |-> 0,
     sockets |-> [s \in Sockets |-> NoSocket],
     sessionId |-> "ssh-a",
     closureSessionId |-> "ssh-a",
     maxAttemptsRaised |-> FALSE,
     error |-> ""]

\* hist.retries: reconnect timer callbacks run; hist.abrupt: abnormal closures
\* (code 1006) the tab's onclose handled as unexpected; hist.sinceOpen and
\* hist.sinceHandshake: those since the last onopen, the last session_info;
\* hist.offScript: something other than an abnormal closure, an open or a
\* session_info has happened (a timeout, a throw, another close code, a
\* server error message, a teardown). The four counters stop once offScript
\* is set.
\* hist.mounts: how often the tab has been activated.
InitHist ==
    [retries |-> 0, abrupt |-> 0, sinceOpen |-> 0, sinceHandshake |-> 0,
     offScript |-> FALSE, mounts |-> 0]

OffScript(h) ==
    [retries |-> 0, abrupt |-> 0, sinceOpen |-> 0, sinceHandshake |-> 0,
     offScript |-> TRUE, mounts |-> h.mounts]

Bump(h, fields) ==
    IF h.offScript THEN h
    ELSE [k \in DOMAIN h |-> IF k \in fields THEN h[k] + 1 ELSE h[k]]

Reset(h, fields) ==
    IF h.offScript THEN h
    ELSE [k \in DOMAIN h |-> IF k \in fields THEN 0 ELSE h[k]]

NumSockets(c) == Cardinality({s \in Sockets : c.sockets[s].readyState # "NONE"})

\* Whether the bounds leave the tab a socket to construct.
SocketLeft == NumSockets(tab) < (IF hist.offScript THEN MaxDetourSockets ELSE MaxSockets)

\* attemptReconnect with the counter incremented before it is compared.
attemptReconnect_IncrementFirst(c) ==
    IF c.reconnectAttempts + 1 >= maxReconnectAttempts
    THEN [c EXCEPT !.connectionState = "error", !.maxAttemptsRaised = TRUE,
                   !.error = "max", !.reconnectAttempts = @ + 1]
    ELSE [c EXCEPT !.connectionState = "reconnecting", !.error = "other",
                   !.reconnectAttempts = @ + 1,
                   !.orphanTimers = @ + (IF c.reconnectTimeoutRef THEN 1 ELSE 0),
                   !.reconnectTimeoutRef = TRUE]

\* SshTerminalTab.tsx:350-395. The counter is compared before it is incremented.
attemptReconnect(c) ==
    IF c.reconnectAttempts >= maxReconnectAttempts
    THEN [c EXCEPT !.connectionState = "error", !.maxAttemptsRaised = TRUE,
                   !.error = "max"]
    ELSE [c EXCEPT !.connectionState = "reconnecting", !.error = "other",
                   !.reconnectAttempts = @ + 1,
                   !.orphanTimers = @ + (IF c.reconnectTimeoutRef THEN 1 ELSE 0),
                   !.reconnectTimeoutRef = TRUE]

\* SshTerminalTab.tsx:80-133, 343-346 (the handlers are the actions below).
connectWebSocket(c, ok) ==
    LET c1 == [c EXCEPT !.isIntentionalDisconnect = FALSE,
                        !.reconnectTimeoutRef = FALSE,
                        !.connectionState = "connecting"]
        s  == NumSockets(c) + 1
    IN  IF ok
        THEN [c1 EXCEPT !.sockets[s] = [NoSocket EXCEPT !.readyState = "CONNECTING",
                                                        !.connectionTimeout = TRUE,
                                                        !.handlers = TRUE],
                        !.wsRef = s]
        ELSE attemptReconnect([c1 EXCEPT !.connectionState = "error"])

\* WebSocket.close(code) on the client: a socket that is connecting or open
\* starts closing; closeArg remembers the code (0: none given).
ClientClose(sock, code) ==
    IF sock.readyState \in {"CONNECTING", "OPEN"}
    THEN [sock EXCEPT !.readyState = "CLOSING", !.closeArg = code]
    ELSE sock

\* SshTerminalTab.tsx:398-460, the terminal effect when the tab is active.
Mount ==
    /\ ~tab.mounted
    /\ hist.mounts < MaxMounts
    /\ SocketLeft
    /\ tab' = connectWebSocket([tab EXCEPT !.mounted = TRUE,
                                           !.closureSessionId = tab.sessionId],
                               urlValid)
    /\ hist' = [(IF urlValid THEN hist ELSE OffScript(hist)) EXCEPT !.mounts = @ + 1]
    /\ UNCHANGED <<urlValid, sel, storeVars, serverVars>>

\* The effect's cleanup without the intentional flag and with the handlers
\* left on the socket.
Teardown_LeavesHandlers ==
    /\ tab.mounted
    /\ LET w  == tab.wsRef
           c1 == [tab EXCEPT !.reconnectTimeoutRef = FALSE,
                             !.mounted = FALSE,
                             !.wsRef = 0]
       IN  tab' = IF w = 0 THEN c1
                  ELSE [c1 EXCEPT !.sockets[w] =
                            ClientClose([@ EXCEPT !.connectionTimeout = FALSE], 1000)]
    /\ hist' = OffScript(hist)
    /\ UNCHANGED <<urlValid, sel, storeVars, serverVars>>

\* SshTerminalTab.tsx:463-503, the effect's cleanup.
Teardown ==
    /\ tab.mounted
    /\ LET w  == tab.wsRef
           c1 == [tab EXCEPT !.isIntentionalDisconnect = TRUE,
                             !.reconnectTimeoutRef = FALSE,
                             !.mounted = FALSE,
                             !.wsRef = 0]
       IN  tab' = IF w = 0 THEN c1
                  ELSE [c1 EXCEPT !.sockets[w] =
                            ClientClose([@ EXCEPT !.connectionTimeout = FALSE,
                                                  !.handlers = FALSE], 1000)]
    /\ hist' = OffScript(hist)
    /\ UNCHANGED <<urlValid, sel, storeVars, serverVars>>

\* SshTerminalTab.tsx:373-394, the reconnect timer's callback. which = "ref":
\* the timer the ref holds; "orphan": one the ref no longer holds.
ReconnectTimerFires(which) ==
    /\ \/ which = "ref" /\ tab.reconnectTimeoutRef
       \/ which = "orphan" /\ tab.orphanTimers > 0
    /\ SocketLeft
    /\ LET w  == tab.wsRef
           c1 == IF which = "ref" THEN [tab EXCEPT !.reconnectTimeoutRef = FALSE]
                 ELSE [tab EXCEPT !.orphanTimers = @ - 1]
           c2 == IF w = 0 THEN c1
                 ELSE [c1 EXCEPT !.sockets[w] =
                          ClientClose([@ EXCEPT !.connectionTimeout = FALSE], 0)]
       IN  tab' = connectWebSocket(c2, urlValid)
    /\ hist' = IF urlValid /\ which = "ref" THEN Bump(hist, {"retries"}) ELSE OffScript(hist)
    /\ UNCHANGED <<urlValid, sel, storeVars, serverVars>>

\* SshTerminalTab.tsx:125-133
ConnectionTimeout(s) ==
    /\ tab.sockets[s].connectionTimeout
    /\ LET c1 == [tab EXCEPT !.sockets[s].connectionTimeout = FALSE]
           c2 == IF c1.sockets[s].readyState # "OPEN"
                 THEN attemptReconnect(
                        [c1 EXCEPT !.sockets[s] = ClientClose(@, 0),
                                   !.connectionState = "error"])
                 ELSE c1
       IN  tab' = c2
    /\ hist' = OffScript(hist)
    /\ UNCHANGED <<urlValid, sel, storeVars, serverVars>>

\* onopen without the reset of the retry counter.
onopen_NoReset(c, s) ==
    [c EXCEPT !.sockets[s].connectionTimeout = FALSE,
              !.connectionState = "connected",
              !.error = "",
              !.sockets[s].initSent = c.sessionId]

\* SshTerminalTab.tsx:135-149
onopen(c, s) ==
    [c EXCEPT !.sockets[s].connectionTimeout = FALSE,
              !.connectionState = "connected",
              !.error = "",
              !.reconnectAttempts = 0,
              !.sockets[s].initSent = c.sessionId]

\* The transport of socket s is established: readyState OPEN, then onopen.
TransportOpens(s) ==
    /\ tab.sockets[s].readyState = "CONNECTING"
    /\ LET c1 == [tab EXCEPT !.sockets[s].readyState = "OPEN",
                             !.sockets[s].everOpen = TRUE]
       IN  tab' = IF c1.sockets[s].handlers THEN onopen(c1, s) ELSE c1
    /\ hist' = IF tab.wsRef = s THEN Reset(hist, {"sinceOpen"}) ELSE OffScript(hist)
    /\ UNCHANGED <<urlValid, sel, storeVars, serverVars>>

\* onclose without the test of the close code.
onclose_RetriesAlways(c, s, code) ==
    LET c1 == [c EXCEPT !.sockets[s].connectionTimeout = FALSE,
                        !.connectionState = "disconnected"]
    IN  IF c.isIntentionalDisconnect THEN c1 ELSE attemptReconnect(c1)

\* SshTerminalTab.tsx:226-280 (onerror, 282-297, runs in the same task before
\* it and leaves nothing that onclose does not overwrite).
onclose(c, s, code) ==
    LET c1 == [c EXCEPT !.sockets[s].connectionTimeout = FALSE,
                        !.connectionState = "disconnected"]
    IN  IF c.isIntentionalDisconnect THEN c1
        ELSE IF code # 1000 THEN attemptReconnect(c1)
        ELSE c1

\* The codes with which socket s can close: a socket that never opened fails
\* with 1006; an open one closes with what the peer sent, or 1006 on loss; one
\* the client is closing gets its own code echoed (1005 for none), or 1006.
CloseCodesOf(sock) ==
    IF ~sock.everOpen THEN {1006}
    ELSE IF sock.readyState = "CLOSING"
         THEN {IF sock.closeArg = 0 THEN 1005 ELSE sock.closeArg, 1006}
         ELSE CloseCodes

\* The transport of socket s is closed: readyState CLOSED, then onclose.
TransportCloses(s, code) ==
    /\ tab.sockets[s].readyState \in {"CONNECTING", "OPEN", "CLOSING"}
    /\ code \in CloseCodesOf(tab.sockets[s])
    /\ LET c1 == [tab EXCEPT !.sockets[s] = ClosedSocket]
       IN  tab' = IF tab.sockets[s].handlers THEN onclose(c1, s, code) ELSE c1
    /\ hist' = IF /\ code = 1006
                  /\ tab.wsRef = s
                  /\ tab.sockets[s].handlers
                  /\ tab.sockets[s].readyState # "CLOSING"
                  /\ ~tab.isIntentionalDisconnect
               THEN Bump(hist, {"abrupt", "sinceOpen", "sinceHandshake"})
               ELSE OffScript(hist)
    /\ UNCHANGED <<urlValid, sel, storeVars, serverVars>>

\* SshTerminalTab.tsx:154-186, a session_info message. The comparison reads
\* the session prop the closure captured; onSessionUpdate changes the parent's
\* record, which the effect at 46-48 copies into sessionIdRef.
onSessionInfo(c, s, id) ==
    LET c1 == [c EXCEPT !.sockets[s].gotSessionInfo = TRUE]
    IN  IF id # "" /\ id # c.closureSessionId
        THEN [c1 EXCEPT !.sessionId = id]
        ELSE c1

\* SshTerminalTab.tsx:151-224, onmessage with a control message of the server.
OnControlMessage(s, msg) ==
    /\ tab.sockets[s].readyState = "OPEN"
    /\ tab.sockets[s].handlers
    /\ tab' = IF msg.type = "session_info" THEN onSessionInfo(tab, s, msg.sessionId)
              ELSE [tab EXCEPT !.connectionState = "error", !.error = "other"]
    /\ hist' = IF msg.type = "session_info" /\ tab.wsRef = s
               THEN Reset(hist, {"sinceHandshake"}) ELSE OffScript(hist)
    /\ UNCHANGED <<urlValid, sel, storeVars, tmuxAvailable>>

ReceiveSessionInfo(s, id) ==
    /\ OnControlMessage(s, [type |-> "session_info", sessionId |-> id])
    /\ UNCHANGED srv

\* SshTerminalTab.tsx:189-192, an error message from the server.
ReceiveError(s) ==
    /\ OnControlMessage(s, [type |-> "error"])
    /\ UNCHANGED srv

(***************************************************************************)
(* WebSocket server (lib/ssh-server.ts)                                    *)
(***************************************************************************)

\* Transports the server accepts in one run with clients of any kind.
MaxTransports == 1

\* Pongs of one transport that may be in flight at once.
MaxPongs == 1

\* Session ids an init or a close_session may carry; "" is a missing one.
ReqIds == {"", "ssh-a", "ssh-ab"}

\* tmux sessions that may be alive when the server starts.
OldSessions == {"ssh-a", "ssh-ab"}

\* The ids `ssh-${Math.random()...}` yields, in the order they are drawn.
GeneratedIds == <<"ssh-g", "ssh-h", "ssh-i", "ssh-j", "ssh-k", "ssh-l">>

\* The names a tmux session may have.
SessionNames == OldSessions \cup {GeneratedIds[i] : i \in DOMAIN GeneratedIds}

\* process.env.HOME, where a new tmux session starts (ssh-server.ts:199).
Home == "/home/u"

\* Directories the pane of a tmux session may be in.
Dirs == {Home, "/srv"}

\* Changes of a pane's directory in one run.
MaxMoves == 2

\* Output messages relayed to one transport that the model counts.
MaxOutputs == 1

\* ssh-server.ts:88-101, 136: a transport the server has just accepted.
\* peer: the client socket at its other end (0: some other client).
\* isAlive, isNewSession: 91, 94. initTimeout: the timer of 98 is pending.
\* initHandler: handleInitMessage is a listener (136, 111). pongs: pongs on
\* their way to the server. vanished: the client is gone without a close.
\* sent: the control messages written to the transport. outputs: how many
\* output messages were written to it.
NewWs(peer) ==
    [peer |-> peer, readyState |-> "OPEN", isAlive |-> TRUE, initTimeout |-> TRUE,
     initHandler |-> TRUE, isNewSession |-> TRUE, pongs |-> 0,
     vanished |-> FALSE, sent |-> <<>>, outputs |-> 0]

\* A transport after its close event: nothing reads what it was, but the
\* handshake timer, which nothing cancels, may still be pending.
ClosedWs(w) ==
    [NewWs(w.peer) EXCEPT !.readyState = "CLOSED", !.isAlive = FALSE,
                          !.initTimeout = w.initTimeout, !.initHandler = FALSE]

\* A connectionId not drawn yet. inMap: the sessions Map (27) has the entry.
\* tmuxSessionId: the entry's name. attached: the tmux session the pty's tmux
\* client is attached to. pty: "attach", "new" (tmux clients), "bash".
\* ptyState: "running"; "exiting" (dead, onExit not yet called); "exited".
\* ssh: "connecting", "failed", "up", "closing" (stream ended, its close
\* event not yet handled), "ended".
\* lastDirectory: the entry's field of that name, "" while undefined.
\* directoryPollingInterval: the polling timer is set. notified: the
\* directories of the current_directory messages sent for the entry.
NoConn ==
    [ws |-> 0, connectionType |-> "none", inMap |-> FALSE, tmuxSessionId |-> "",
     attached |-> "", pty |-> "none", ptyState |-> "none", ssh |-> "none",
     lastDirectory |-> "", directoryPollingInterval |-> FALSE, notified |-> <<>>]

\* ssh-server.ts:323-329, 337-345: the polling timer is cleared and the entry
\* leaves the sessions Map; nothing reads its directory fields any more.
Deleted(entry) ==
    [entry EXCEPT !.inMap = FALSE, !.directoryPollingInterval = FALSE,
                  !.lastDirectory = "", !.notified = <<>>]

\* A connection whose backend is gone for good: nothing reads its names.
Gone(entry) == [entry EXCEPT !.tmuxSessionId = "", !.attached = "", !.pty = "none"]

\* The server when it has started, with the tmux sessions `live`.
\* ws: the transports accepted so far; conn: the connections made so far, by
\* connectionId; generated: how many ids have been drawn.
\* cwd[n]: what `tmux display-message -p '#{pane_current_path}' -t n` prints
\* while session n is alive, "" when it prints nothing or fails. moves: how
\* often a pane has changed its directory.
InitSrv(live) ==
    [ws |-> <<>>, conn |-> <<>>, tmux |-> live, generated |-> 0,
     cwd |-> [n \in SessionNames |-> Home], moves |-> 0]

ConnectionsOf(S, t) == {c \in DOMAIN S.conn : S.conn[c].ws = t}

\* The connections whose listeners setupLocalPtyHandlers (called when a
\* local connection is made) or setupRemoteSSHHandlers (called when
\* sshConn.connect has resolved) registered on transport t.
HandlersOf(S, t) ==
    {c \in ConnectionsOf(S, t) :
        \/ S.conn[c].connectionType = "local"
        \/ S.conn[c].ssh \in {"up", "closing", "ended"}}

\* The name tails by which one modelled session name extends another.
NameTails == {"b"}

StartsWith(name, prefix) == \E tail \in NameTails : prefix \o tail = name

\* The session a tmux `-t target` names (tmux(1), target-session): the
\* session of that exact name, else the only session whose name starts with
\* it; none if there is no such session or more than one.
TmuxTarget(live, target) ==
    IF target \in live THEN {target}
    ELSE LET m == {n \in live : StartsWith(n, target)}
         IN  IF Cardinality(m) = 1 THEN m ELSE {}

\* ssh-server.ts:41-48
tmuxSessionExists(live, sessionId) == TmuxTarget(live, sessionId) # {}

\* ssh-server.ts:50-62: the trimmed output, "" for null.
getTmuxCurrentDirectory(S, sessionId) ==
    LET target == TmuxTarget(S.tmux, sessionId)
    IN  IF target = {} THEN "" ELSE S.cwd[CHOOSE n \in target : TRUE]

\* ws.send: a message written to a transport that is not open goes nowhere.
Send(S, t, msg) ==
    IF S.ws[t].readyState = "OPEN" THEN [S EXCEPT !.ws[t].sent = Append(@, msg)] ELSE S

\* ws.close()
WsClose(S, t) ==
    IF S.ws[t].readyState = "OPEN" THEN [S EXCEPT !.ws[t].readyState = "CLOSING"] ELSE S

SessionInfo(id, isNew, avail, kind) ==
    [type |-> "session_info", sessionId |-> id, isNewSession |-> isNew,
     tmuxAvailable |-> avail, connectionType |-> kind]

ErrorMessage ==
    [type |-> "error", sessionId |-> "", isNewSession |-> FALSE,
     tmuxAvailable |-> FALSE, connectionType |-> ""]

\* ssh-server.ts:356-359, 376-379: a current_directory message for entry c.
Notify(S, c, directory) ==
    [S EXCEPT !.conn[c].lastDirectory = directory,
              !.conn[c].notified = Append(@, directory)]

\* setupLocalPtyHandlers with a directory read that is sent whatever the
\* entry holds and is not remembered.
Poll_ForgetsLast(S, c) ==
    LET currentDir == getTmuxCurrentDirectory(S, S.conn[c].tmuxSessionId)
    IN  IF currentDir # "" /\ S.ws[S.conn[c].ws].readyState = "OPEN"
        THEN [S EXCEPT !.conn[c].notified = Append(@, currentDir)]
        ELSE S

\* ssh-server.ts:365-382, the callback of the polling timer for an entry
\* that is in the sessions Map.
Poll(S, c) ==
    LET currentDir == getTmuxCurrentDirectory(S, S.conn[c].tmuxSessionId)
    IN  IF /\ currentDir # ""
           /\ currentDir # S.conn[c].lastDirectory
           /\ S.ws[S.conn[c].ws].readyState = "OPEN"
        THEN Notify(S, c, currentDir)
        ELSE S

\* ssh-server.ts:348-388, the end of setupLocalPtyHandlers for the entry c
\* just made: the initial directory, then the polling timer.
StartDirectoryPolling(S, c) ==
    IF tmuxAvailable /\ S.conn[c].tmuxSessionId # ""
    THEN LET initialDir == getTmuxCurrentDirectory(S, S.conn[c].tmuxSessionId)
             S1 == IF initialDir # "" /\ S.ws[S.conn[c].ws].readyState = "OPEN"
                   THEN Notify(S, c, initialDir)
                   ELSE S
         IN  [S1 EXCEPT !.conn[c].directoryPollingInterval = TRUE]
    ELSE S

\* The tmux session `name` ends: every client attached to it exits. A
\* session made under that name later starts at Home.
EndTmuxSession(S, name) ==
    [S EXCEPT !.tmux = @ \ {name},
              !.cwd[name] = Home,
              !.conn = [c \in DOMAIN S.conn |->
                          IF S.conn[c].attached = name /\ S.conn[c].ptyState = "running"
                          THEN [S.conn[c] EXCEPT !.ptyState = "exiting"]
                          ELSE S.conn[c]]]

\* initializeLocalPty without the attach branch: a session is always created.
initializeLocalPty_AlwaysCreates(S, t, requestedSessionId) ==
    LET fresh  == requestedSessionId = ""
        id     == IF fresh THEN GeneratedIds[S.generated + 1] ELSE requestedSessionId
        entry  == [ws |-> t, connectionType |-> "local", inMap |-> TRUE,
                   tmuxSessionId |-> id,
                   attached |-> IF tmuxAvailable THEN id ELSE "",
                   pty |-> IF tmuxAvailable THEN "new" ELSE "bash",
                   ptyState |-> "running", ssh |-> "none", lastDirectory |-> "",
                   directoryPollingInterval |-> FALSE, notified |-> <<>>]
        S1     == [S EXCEPT !.generated = IF fresh THEN @ + 1 ELSE @,
                            !.tmux = IF tmuxAvailable THEN @ \cup {id} ELSE @,
                            !.conn = Append(@, entry)]
    IN  StartDirectoryPolling(
            Send(S1, t, SessionInfo(id, S.ws[t].isNewSession, tmuxAvailable, "local")),
            Len(S1.conn))

\* ssh-server.ts:139-232 with setupLocalPtyHandlers, 280-389 (its listeners
\* are the actions below).
initializeLocalPty(S, t, requestedSessionId) ==
    LET attach == /\ tmuxAvailable
                  /\ requestedSessionId # ""
                  /\ tmuxSessionExists(S.tmux, requestedSessionId)
        fresh  == ~attach /\ requestedSessionId = ""
        id     == IF fresh THEN GeneratedIds[S.generated + 1] ELSE requestedSessionId
        isNew  == IF attach THEN FALSE ELSE S.ws[t].isNewSession
        entry  == [ws |-> t, connectionType |-> "local", inMap |-> TRUE,
                   tmuxSessionId |-> id,
                   attached |-> IF attach
                                THEN CHOOSE n \in TmuxTarget(S.tmux, requestedSessionId) : TRUE
                                ELSE IF tmuxAvailable THEN id ELSE "",
                   pty |-> IF attach THEN "attach"
                           ELSE IF tmuxAvailable THEN "new" ELSE "bash",
                   ptyState |-> "running", ssh |-> "none", lastDirectory |-> "",
                   directoryPollingInterval |-> FALSE, notified |-> <<>>]
        S1     == [S EXCEPT !.ws[t].isNewSession = isNew,
                            !.generated = IF fresh THEN @ + 1 ELSE @,
                            !.tmux = IF ~attach /\ tmuxAvailable THEN @ \cup {id} ELSE @,
                            !.conn = Append(@, entry)]
    IN  StartDirectoryPolling(Send(S1, t, SessionInfo(id, isNew, tmuxAvailable, "local")),
                              Len(S1.conn))

\* ssh-server.ts:235-243, up to the await of sshConn.connect.
initializeRemoteSSH(S, t, requestedSessionId) ==
    LET fresh == requestedSessionId = ""
        id    == IF fresh THEN GeneratedIds[S.generated + 1] ELSE requestedSessionId
    IN  [S EXCEPT !.generated = IF fresh THEN @ + 1 ELSE @,
                  !.conn = Append(@, [NoConn EXCEPT !.ws = t,
                                                    !.connectionType = "remote",
                                                    !.tmuxSessionId = id,
                                                    !.ssh = "connecting"])]

\* handleInitMessage taking the first message of a transport, whatever it
\* is, as the end of the wait for an init: a message that is none stops the
\* timer and is answered with an error.
handleInitMessage_FirstMessageEndsWait(S, t, msg) ==
    LET S1 == [S EXCEPT !.ws[t].initTimeout = FALSE, !.ws[t].initHandler = FALSE]
        connectionType == IF msg.connectionType = Undefined THEN "local"
                          ELSE msg.connectionType
    IN  IF msg.type # "init" THEN WsClose(Send(S1, t, ErrorMessage), t)
        ELSE IF connectionType = "local"
        THEN initializeLocalPty(S1, t, msg.sessionId)
        ELSE IF connectionType = "remote" /\ msg.remoteInfo # Undefined
        THEN initializeRemoteSSH(S1, t, msg.sessionId)
        ELSE WsClose(Send(S1, t, ErrorMessage), t)

\* ssh-server.ts:103-134. msg.connectionType and msg.remoteInfo are Undefined
\* when the message has no such key.
handleInitMessage(S, t, msg) ==
    IF msg.type # "init" THEN S
    ELSE LET S1 == [S EXCEPT !.ws[t].initTimeout = FALSE, !.ws[t].initHandler = FALSE]
             connectionType == IF msg.connectionType = Undefined THEN "local"
                               ELSE msg.connectionType
         IN  IF connectionType = "local"
             THEN initializeLocalPty(S1, t, msg.sessionId)
             ELSE IF connectionType = "remote" /\ msg.remoteInfo # Undefined
             THEN initializeRemoteSSH(S1, t, msg.sessionId)
             ELSE WsClose(Send(S1, t, ErrorMessage), t)

\* SshRemoteConnection.disconnect, ssh-server.ts:961-967.
Disconnect(entry) ==
    IF entry.ssh = "up" THEN [entry EXCEPT !.ssh = "closing"] ELSE entry

\* `tmux kill-session -t target`, ssh-server.ts:304.
KillSession(S, target) ==
    LET killed == TmuxTarget(S.tmux, target)
    IN  IF killed = {} THEN S ELSE EndTmuxSession(S, CHOOSE n \in killed : TRUE)

\* The message listeners of setupLocalPtyHandlers (291-314) and of
\* setupRemoteSSHHandlers (428-443) for the connections hs, each called with
\* the message.
StreamingHandlers(S, hs, msg) ==
    IF msg.type # "close_session" THEN S
    ELSE LET S1 == [S EXCEPT !.conn = [c \in DOMAIN S.conn |->
                                   IF c \in hs /\ S.conn[c].connectionType = "remote"
                                   THEN Disconnect(S.conn[c]) ELSE S.conn[c]]]
             n  == Cardinality({c \in hs : S.conn[c].connectionType = "local"})
         IN  IF n = 0 \/ ~tmuxAvailable \/ msg.sessionId = "" THEN S1
             ELSE IF n = 1 THEN KillSession(S1, msg.sessionId)
             ELSE KillSession(KillSession(S1, msg.sessionId), msg.sessionId)

\* The messages a client may send.
ClientMessage(type, id, kind, info) ==
    [type |-> type, sessionId |-> id, connectionType |-> kind, remoteInfo |-> info]

\* Messages the handlers have no use for: text that JSON.parse throws on
\* ("unparsable"), a type no handler knows, and an input or a resize, whose
\* fields (with or without a value) only the backend gets to see.
MalformedMessages ==
    {ClientMessage(type, "", Undefined, Undefined) :
        type \in {"unparsable", "unknown", "input", "resize"}}

ClientMessages ==
    {ClientMessage("init", id, Undefined, Undefined) : id \in ReqIds}
    \cup {ClientMessage("init", "", "remote", info) : info \in {Undefined, "some"}}
    \cup {ClientMessage("close_session", id, Undefined, Undefined) : id \in {"", "ssh-a"}}
    \cup MalformedMessages

\* ssh-server.ts:88-101, 136: the server accepts a transport from `peer`.
Accept(S, peer) == [S EXCEPT !.ws = Append(@, NewWs(peer))]

Connect ==
    /\ Len(srv.ws) < MaxTransports
    /\ srv' = Accept(srv, 0)
    /\ UNCHANGED <<tmuxAvailable, clientVars, storeVars>>

\* The handshake timer as a deadline: the client is told and the transport
\* is closed.
InitTimeout_ClosesTransport(t) ==
    /\ srv.ws[t].initTimeout
    /\ srv' = WsClose(Send([srv EXCEPT !.ws[t].initTimeout = FALSE], t, ErrorMessage), t)
    /\ UNCHANGED <<tmuxAvailable, clientVars, storeVars>>

\* ssh-server.ts:98-101: the handshake timer fires.
InitTimeout(t) ==
    /\ srv.ws[t].initTimeout
    /\ srv' = initializeLocalPty([srv EXCEPT !.ws[t].initTimeout = FALSE], t, "")
    /\ UNCHANGED <<tmuxAvailable, clientVars, storeVars>>

\* A message event on transport t: handleInitMessage if it is a listener,
\* then the listeners that were registered before the event.
OnMessage(S, t, msg) ==
    StreamingHandlers(IF S.ws[t].initHandler THEN handleInitMessage(S, t, msg) ELSE S,
                      HandlersOf(S, t), msg)

ServerReceives(t, msg) ==
    /\ srv.ws[t].readyState = "OPEN"
    /\ ~srv.ws[t].vanished
    /\ srv' = OnMessage(srv, t, msg)
    /\ UNCHANGED <<tmuxAvailable, clientVars, storeVars>>

\* ssh-server.ts:243-267: sshConn.connect resolved (setupRemoteSSHHandlers,
\* 392-454, registers the listeners that are the actions below).
RemoteConnectResolves(c) ==
    /\ srv.conn[c].ssh = "connecting"
    /\ LET t  == srv.conn[c].ws
           S1 == [srv EXCEPT !.conn[c].ssh = "up", !.conn[c].inMap = TRUE]
       IN  srv' = Send(S1, t, SessionInfo(srv.conn[c].tmuxSessionId, TRUE, FALSE, "remote"))
    /\ UNCHANGED <<tmuxAvailable, clientVars, storeVars>>

\* The catch block of initializeRemoteSSH without its ws.close().
RemoteConnectRejects_KeepsOpen(c) ==
    /\ srv.conn[c].ssh = "connecting"
    /\ srv' = Send([srv EXCEPT !.conn[c] = Gone([@ EXCEPT !.ssh = "failed"])],
                   srv.conn[c].ws, ErrorMessage)
    /\ UNCHANGED <<tmuxAvailable, clientVars, storeVars>>

\* ssh-server.ts:269-276: sshConn.connect rejected.
RemoteConnectRejects(c) ==
    /\ srv.conn[c].ssh = "connecting"
    /\ LET t == srv.conn[c].ws
       IN  srv' = WsClose(Send([srv EXCEPT !.conn[c] = Gone([@ EXCEPT !.ssh = "failed"])],
                               t, ErrorMessage), t)
    /\ UNCHANGED <<tmuxAvailable, clientVars, storeVars>>

\* A backend stops without the server asking: a bash or a tmux client exits
\* ("detach": the tmux session lives on; "end": the session ends with it),
\* or the remote side closes the stream.
BackendExits(c, how) ==
    /\ \/ /\ srv.conn[c].ptyState = "running"
          /\ how = "end" => srv.conn[c].pty # "bash"
          /\ srv' = IF srv.conn[c].pty = "bash" \/ how = "detach"
                    THEN [srv EXCEPT !.conn[c].ptyState = "exiting"]
                    ELSE EndTmuxSession(srv, srv.conn[c].attached)
       \/ /\ srv.conn[c].ssh = "up"
          /\ how = "end"
          /\ srv' = [srv EXCEPT !.conn[c].ssh = "closing"]
    /\ UNCHANGED <<tmuxAvailable, clientVars, storeVars>>

\* ssh-server.ts:285-289 (ptyProcess.onData), 403-407 and 420-425 (the
\* stream's data listeners): the backend of connection c writes, and the
\* listener registered when the connection was made relays it.
BackendData(c) ==
    /\ srv.conn[c].ptyState = "running" \/ srv.conn[c].ssh = "up"
    /\ srv.ws[srv.conn[c].ws].readyState = "OPEN"
    /\ srv.ws[srv.conn[c].ws].outputs < MaxOutputs
    /\ srv' = [srv EXCEPT !.ws[srv.conn[c].ws].outputs = @ + 1]
    /\ UNCHANGED <<tmuxAvailable, clientVars, storeVars>>

\* ssh-server.ts:334-346, ptyProcess.onExit.
PtyExit(c) ==
    /\ srv.conn[c].ptyState = "exiting"
    /\ srv' = WsClose([srv EXCEPT !.conn[c] = Gone(Deleted([@ EXCEPT !.ptyState = "exited"]))],
                      srv.conn[c].ws)
    /\ UNCHANGED <<tmuxAvailable, clientVars, storeVars>>

\* ssh-server.ts:409-418, stream.on('close').
StreamClose(c) ==
    /\ srv.conn[c].ssh = "closing"
    /\ LET t == srv.conn[c].ws
       IN  srv' = WsClose(Send([srv EXCEPT !.conn[c] = Gone([@ EXCEPT !.ssh = "ended"])],
                               t, ErrorMessage), t)
    /\ UNCHANGED <<tmuxAvailable, clientVars, storeVars>>

\* The ping timer without the reset of isAlive.
Ping_KeepsAlive ==
    /\ \E t \in DOMAIN srv.ws : srv.ws[t].readyState = "OPEN"
    /\ \A t \in DOMAIN srv.ws :
          srv.ws[t].readyState = "OPEN" /\ ~srv.ws[t].vanished => srv.ws[t].pongs < MaxPongs
    /\ srv' = [srv EXCEPT !.ws = [t \in DOMAIN srv.ws |->
                 IF srv.ws[t].readyState = "OPEN"
                 THEN [srv.ws[t] EXCEPT !.pongs = IF srv.ws[t].vanished THEN @ ELSE @ + 1]
                 ELSE srv.ws[t]]]
    /\ UNCHANGED <<tmuxAvailable, clientVars, storeVars>>

\* ssh-server.ts:79-86, the ping timer.
Ping ==
    /\ \E t \in DOMAIN srv.ws : srv.ws[t].readyState = "OPEN"
    /\ \A t \in DOMAIN srv.ws :
          srv.ws[t].readyState = "OPEN" /\ ~srv.ws[t].vanished => srv.ws[t].pongs < MaxPongs
    /\ srv' = [srv EXCEPT !.ws = [t \in DOMAIN srv.ws |->
                 IF srv.ws[t].readyState = "OPEN"
                 THEN [srv.ws[t] EXCEPT !.isAlive = FALSE,
                                        !.pongs = IF srv.ws[t].vanished THEN @ ELSE @ + 1]
                 ELSE srv.ws[t]]]
    /\ UNCHANGED <<tmuxAvailable, clientVars, storeVars>>

\* A pong reaches the server: the pong listeners of 281-283 and 398-400, if
\* one is registered.
PongArrives(t) ==
    /\ srv.ws[t].readyState = "OPEN"
    /\ srv.ws[t].pongs > 0
    /\ srv' = [srv EXCEPT !.ws[t].pongs = @ - 1,
                          !.ws[t].isAlive = @ \/ HandlersOf(srv, t) # {}]
    /\ UNCHANGED <<tmuxAvailable, clientVars, storeVars>>

\* ws.terminate(): the socket is destroyed; its close event follows.
WsTerminate(w) == [w EXCEPT !.readyState = "CLOSING"]

\* ssh-server.ts:458-466, the timeout check timer. wss.clients holds the
\* transports that are open or closing.
TimeoutCheck ==
    /\ \E t \in DOMAIN srv.ws : srv.ws[t].readyState \in {"OPEN", "CLOSING"}
    /\ srv' = [srv EXCEPT !.ws = [t \in DOMAIN srv.ws |->
                 IF srv.ws[t].readyState \in {"OPEN", "CLOSING"} /\ ~srv.ws[t].isAlive
                 THEN WsTerminate(srv.ws[t]) ELSE srv.ws[t]]]
    /\ UNCHANGED <<tmuxAvailable, clientVars, storeVars>>

\* The client of transport t is gone without closing it.
ClientVanishes(t) ==
    /\ srv.ws[t].readyState = "OPEN"
    /\ ~srv.ws[t].vanished
    /\ srv' = [srv EXCEPT !.ws[t].vanished = TRUE]
    /\ UNCHANGED <<tmuxAvailable, clientVars, storeVars>>

\* ssh-server.ts:365-382: the polling timer of connection c fires.
DirectoryPoll(c) ==
    /\ srv.conn[c].directoryPollingInterval
    /\ srv' = IF ~srv.conn[c].inMap
              THEN [srv EXCEPT !.conn[c].directoryPollingInterval = FALSE]
              ELSE Poll(srv, c)
    /\ UNCHANGED <<tmuxAvailable, clientVars, storeVars>>

\* The shell in the pane of tmux session `name` changes its directory, or
\* the pane stops or starts reporting one.
PaneMoves(name, directory) ==
    /\ name \in srv.tmux
    /\ srv.moves < MaxMoves
    /\ directory # srv.cwd[name]
    /\ srv' = [srv EXCEPT !.cwd[name] = directory, !.moves = @ + 1]
    /\ UNCHANGED <<tmuxAvailable, clientVars, storeVars>>

\* The close listeners, with a ptyProcess.kill() that ends the tmux session
\* of the client it kills.
CloseHandlers_KillEndsSession(S, hs) ==
    [S EXCEPT !.tmux = @ \ {S.conn[c].attached : c \in hs},
              !.conn = [c \in DOMAIN S.conn |->
        IF c \notin hs THEN S.conn[c]
        ELSE IF S.conn[c].connectionType = "local"
        THEN Deleted([S.conn[c] EXCEPT !.ptyState = IF @ = "running" THEN "exiting" ELSE @])
        ELSE [Disconnect(S.conn[c]) EXCEPT !.inMap = FALSE]]]

\* The close listeners of the connections hs: 320-332 (local), 449-453 (remote).
CloseHandlers(S, hs) ==
    [S EXCEPT !.conn = [c \in DOMAIN S.conn |->
        IF c \notin hs THEN S.conn[c]
        ELSE IF S.conn[c].connectionType = "local"
        THEN Deleted([S.conn[c] EXCEPT !.ptyState = IF @ = "running" THEN "exiting" ELSE @])
        ELSE [Disconnect(S.conn[c]) EXCEPT !.inMap = FALSE]]]

\* The close event of transport t: the peer closed it, it was lost, or the
\* server's close or terminate completed. The listeners registered by then
\* are called.
ServerWsClosed(t) ==
    /\ \/ srv.ws[t].readyState = "CLOSING"
       \/ srv.ws[t].readyState = "OPEN" /\ ~srv.ws[t].vanished
    /\ srv' = CloseHandlers([srv EXCEPT !.ws[t] = ClosedWs(@)], HandlersOf(srv, t))
    /\ UNCHANGED <<tmuxAvailable, clientVars, storeVars>>

(***************************************************************************)
(* Session selector (components/TmuxSessionSelector.tsx)                   *)
(***************************************************************************)

\* Times the selector is mounted in one run.
MaxSelectorMounts == 1

\* The peer of the transport the selector opens.
SelectorPeer == -1

\* TmuxSessionSelector.tsx:16-21, before the effect has run. readyState: of
\* the WebSocket of 39 ("NONE": not constructed). connectionTimeout: the
\* timer of 49 is pending. listSent: the list_sessions message of 61 is on
\* its way. mounts: how often the selector was mounted.
InitSel ==
    [mounted |-> FALSE, loadingState |-> "loading", readyState |-> "NONE",
     connectionTimeout |-> FALSE, listSent |-> FALSE, mounts |-> 0]

\* The server's transport whose peer is the selector.
SelectorTransport == {t \in DOMAIN srv.ws : srv.ws[t].peer = SelectorPeer}

\* TmuxSessionSelector.tsx:24-56: the effect constructs the WebSocket and
\* starts the connection timer, or fails to construct it.
SelectorMount ==
    /\ ~sel.mounted
    /\ sel.mounts < MaxSelectorMounts
    /\ sel' = IF urlValid
              THEN [InitSel EXCEPT !.mounted = TRUE, !.readyState = "CONNECTING",
                                   !.connectionTimeout = TRUE, !.mounts = sel.mounts + 1]
              ELSE [InitSel EXCEPT !.mounted = TRUE, !.loadingState = "error",
                                   !.mounts = sel.mounts + 1]
    /\ UNCHANGED <<tab, urlValid, hist, storeVars, serverVars>>

\* The server accepts the connection the selector is making.
SelectorAccepted ==
    /\ sel.readyState = "CONNECTING"
    /\ SelectorTransport = {}
    /\ Len(srv.ws) < MaxTransports
    /\ srv' = Accept(srv, SelectorPeer)
    /\ UNCHANGED <<tmuxAvailable, clientVars, storeVars>>

\* TmuxSessionSelector.tsx:58-62, ws.onopen.
SelectorOpens ==
    /\ sel.readyState = "CONNECTING"
    /\ \E t \in SelectorTransport : srv.ws[t].readyState = "OPEN"
    /\ sel' = [sel EXCEPT !.readyState = "OPEN", !.connectionTimeout = FALSE,
                          !.listSent = TRUE]
    /\ UNCHANGED <<tab, urlValid, hist, storeVars, serverVars>>

\* The list_sessions message reaches the server.
ListSessionsArrives ==
    /\ sel.listSent
    /\ \E t \in SelectorTransport :
          /\ srv.ws[t].readyState = "OPEN"
          /\ srv' = OnMessage(srv, t, ClientMessage("list_sessions", "", Undefined, Undefined))
    /\ sel' = [sel EXCEPT !.listSent = FALSE]
    /\ UNCHANGED <<tab, urlValid, hist, tmuxAvailable, storeVars>>

\* TmuxSessionSelector.tsx:49-56: the connection timer fires.
SelectorConnectionTimeout ==
    /\ sel.connectionTimeout
    /\ sel' = IF sel.readyState # "OPEN"
              THEN [sel EXCEPT !.connectionTimeout = FALSE, !.loadingState = "error",
                               !.readyState = IF @ = "CONNECTING" THEN "CLOSING" ELSE @]
              ELSE [sel EXCEPT !.connectionTimeout = FALSE]
    /\ UNCHANGED <<tab, urlValid, hist, storeVars, serverVars>>

\* TmuxSessionSelector.tsx:64-79, ws.onmessage for the oldest message the
\* server wrote to the transport.
SelectorMessage ==
    /\ sel.readyState = "OPEN"
    /\ \E t \in SelectorTransport :
          /\ srv.ws[t].sent # <<>>
          /\ sel' = IF Head(srv.ws[t].sent).type = "sessions_list"
                    THEN [sel EXCEPT !.loadingState = "loaded", !.readyState = "CLOSING"]
                    ELSE sel
          /\ srv' = [srv EXCEPT !.ws[t].sent = Tail(@)]
    /\ UNCHANGED <<tab, urlValid, hist, tmuxAvailable, storeVars>>

\* TmuxSessionSelector.tsx:85-89 then 81-83: the connection fails, while it
\* is made or later; the error event, then the close event.
SelectorFails ==
    /\ sel.readyState \in {"CONNECTING", "OPEN"}
    /\ sel' = [sel EXCEPT !.readyState = "CLOSED", !.connectionTimeout = FALSE,
                          !.listSent = FALSE, !.loadingState = "error"]
    /\ UNCHANGED <<tab, urlValid, hist, storeVars, serverVars>>

\* TmuxSessionSelector.tsx:81-83, ws.onclose: a close the selector started
\* completes, or the server has closed the transport.
SelectorClosed ==
    /\ \/ sel.readyState = "CLOSING"
       \/ /\ sel.readyState = "OPEN"
          /\ \E t \in SelectorTransport : srv.ws[t].readyState # "OPEN"
    /\ sel' = [sel EXCEPT !.readyState = "CLOSED", !.connectionTimeout = FALSE,
                          !.listSent = FALSE]
    /\ UNCHANGED <<tab, urlValid, hist, storeVars, serverVars>>

\* TmuxSessionSelector.tsx:91-96, the cleanup of the effect.
SelectorUnmount ==
    /\ sel.mounted
    /\ sel' = [sel EXCEPT !.mounted = FALSE, !.connectionTimeout = FALSE,
                          !.readyState = IF @ \in {"OPEN", "CONNECTING"} THEN "CLOSING" ELSE @]
    /\ UNCHANGED <<tab, urlValid, hist, storeVars, serverVars>>

(***************************************************************************)
(* Specifications                                                          *)
(***************************************************************************)

IdleClient ==
    /\ tab = InitTab
    /\ urlValid = TRUE
    /\ hist = InitHist
    /\ sel = InitSel

IdleServer ==
    /\ srv = InitSrv({})
    /\ tmuxAvailable = TRUE

IdleLib ==
    /\ legacy = Absent
    /\ lib = NoCall
    /\ mgr = Unmounted

IdleStore ==
    /\ store = [version |-> CURRENT_VERSION, activeSessionId |-> "null", sessions |-> <<>>]
    /\ storage = NoItem
    /\ IdleLib

InitStore ==
    /\ store \in Stores
    /\ storage = NoItem
    /\ IdleLib
    /\ IdleClient
    /\ IdleServer

NextStore ==
    \E first \in SetItemOutcomes, retry \in RetryOutcomes : saveSessionStore(first, retry)

SpecStore == InitStore /\ [][NextStore]_vars

\* The session-store functions, each applied to what it may be handed.
InitLib ==
    /\ \/ /\ \/ \E S \in ValidateStores : lib = Call("validate", <<S>>)
             \/ \E x \in MigrateStores \cup {JsNull} : lib = Call("migrate", <<x>>)
             \/ \E ss \in SeqsUpTo(CleanupRecords \cup {JsNull}, MaxRecords), days \in AgeLimits :
                   lib = Call("cleanup", <<ss, days>>)
             \/ \E ss \in SeqsUpTo(NameRecords, MaxRecords), kind \in {"local", "remote"} :
                   lib = Call("nextName", <<ss, kind>>)
          /\ store = EmptyStore
          /\ storage = NoItem
          /\ legacy = Absent
       \/ /\ lib = Call("roundtrip", <<>>)
          /\ store \in Stores
          /\ storage = NoItem
          /\ legacy = Absent
       \/ /\ lib = Call("initialize", <<>>)
          /\ store = EmptyStore
          /\ storage \in PersistedItems
          /\ legacy \in LegacyItems
       \/ /\ \E info \in ConnectInfos : lib = Call("connect", <<info>>)
          /\ store = EmptyStore
          /\ storage = NoItem
          /\ legacy = Absent
       \/ /\ lib = Call("migrateLegacy", <<>>)
          /\ store = EmptyStore
          /\ storage \in {NoItem, SavedItem(StoredTabs(2), NoItem, "ok", "ok")}
          /\ legacy \in LegacyItems
    /\ mgr = Unmounted
    /\ IdleClient
    /\ IdleServer

NextLib ==
    \/ Validate
    \/ Migrate
    \/ Cleanup
    \/ NextName
    \/ \E first \in SetItemOutcomes, retry \in RetryOutcomes : Save(first, retry)
    \/ Load
    \/ \E first \in SetItemOutcomes, retry \in RetryOutcomes : Initialize(first, retry)
    \/ \E first \in SetItemOutcomes, retry \in RetryOutcomes : MigrateLegacy(first, retry)
    \/ \E readable \in BOOLEAN : RemoteConnect(readable)

SpecLib == InitLib /\ [][NextLib]_vars

\* The tab manager in a browser whose localStorage starts empty.
InitManager ==
    /\ store = EmptyStore
    /\ \E n \in StoredTabCounts :
          storage = IF n = 0 THEN NoItem ELSE SavedItem(StoredTabs(n), NoItem, "ok", "ok")
    /\ IdleLib
    /\ IdleClient
    /\ IdleServer

NextManager ==
    \/ ManagerUnmount
    \/ HideMaxTabsWarning
    \/ \E first \in SetItemOutcomes, retry \in RetryOutcomes :
          \/ \E initial \in TmuxIds \cup {"null"} : ManagerMount(initial, first, retry)
          \/ handleCreateTab(first, retry)
          \/ \E i \in 1..(MAX_TABS + 2) :
                \/ handleTabSwitch(i, first, retry)
                \/ handleTabClose(i, first, retry)
                \/ handleCloseOtherTabs(i, first, retry)
                \/ handleTabRename(i, "logs", first, retry)
                \/ \E id \in TmuxIds : handleSessionUpdate(i, id, first, retry)
          \/ handleReorderTabs(first, retry)
          \/ handleCloseAllTabs(first, retry)

SpecManager == InitManager /\ [][NextManager]_vars

InitClient ==
    /\ tab = InitTab
    /\ urlValid \in BOOLEAN
    /\ hist = InitHist
    /\ sel = InitSel
    /\ IdleStore
    /\ IdleServer

NextClient ==
    \/ Mount
    \/ Teardown
    \/ \E which \in {"ref", "orphan"} : ReconnectTimerFires(which)
    \/ \E s \in Sockets : ConnectionTimeout(s)
    \/ \E s \in Sockets : TransportOpens(s)
    \/ \E s \in Sockets, code \in CloseCodes : TransportCloses(s, code)
    \/ \E s \in Sockets, id \in WireIds : ReceiveSessionInfo(s, id)
    \/ \E s \in Sockets : ReceiveError(s)

SpecClient == InitClient /\ [][NextClient]_vars

\* The server with clients that send any message at any time.
InitServer ==
    /\ tmuxAvailable \in BOOLEAN
    /\ \E live \in SUBSET OldSessions :
          /\ ~tmuxAvailable => live = {}
          /\ srv = InitSrv(live)
    /\ IdleClient
    /\ IdleStore

NextServer ==
    \/ Connect
    \/ \E t \in DOMAIN srv.ws : InitTimeout(t)
    \/ \E t \in DOMAIN srv.ws, msg \in ClientMessages : ServerReceives(t, msg)
    \/ \E c \in DOMAIN srv.conn : RemoteConnectResolves(c)
    \/ \E c \in DOMAIN srv.conn : RemoteConnectRejects(c)
    \/ \E c \in DOMAIN srv.conn, how \in {"detach", "end"} : BackendExits(c, how)
    \/ \E c \in DOMAIN srv.conn : PtyExit(c)
    \/ \E c \in DOMAIN srv.conn : StreamClose(c)
    \/ Ping
    \/ \E t \in DOMAIN srv.ws : PongArrives(t)
    \/ TimeoutCheck
    \/ \E t \in DOMAIN srv.ws : ClientVanishes(t)
    \/ \E t \in DOMAIN srv.ws : ServerWsClosed(t)

SpecServer == InitServer /\ [][NextServer]_vars

\* The server with backends that write.
NextRelay ==
    \/ NextServer
    \/ \E c \in DOMAIN srv.conn : BackendData(c)

SpecRelay == InitServer /\ [][NextRelay]_vars

\* The server with its directory polling, over panes that change their
\* directory. A session that is alive at the start is in any directory or
\* reports none; a session made later reports Home, or nothing at first when
\* its name is in `slow` (the read of 349 may come before tmux has made it).
InitPolling ==
    /\ tmuxAvailable \in BOOLEAN
    /\ \E live \in SUBSET OldSessions, slow \in SUBSET {GeneratedIds[1], GeneratedIds[2]} :
          /\ ~tmuxAvailable => live = {} /\ slow = {}
          /\ \E cwd \in [SessionNames -> Dirs \cup {""}] :
                /\ \A n \in SessionNames \ live : cwd[n] = IF n \in slow THEN "" ELSE Home
                /\ srv = [InitSrv(live) EXCEPT !.cwd = cwd]
    /\ IdleClient
    /\ IdleStore

NextPolling ==
    \/ NextServer
    \/ \E c \in DOMAIN srv.conn : DirectoryPoll(c)
    \/ \E name \in SessionNames, directory \in Dirs \cup {""} : PaneMoves(name, directory)

SpecPolling == InitPolling /\ [][NextPolling]_vars

\* The tab and the server, joined by the tab's sockets, in the runs in which
\* the tab sees nothing but abnormal closures, opens and session_info
\* messages (the runs in which hist.offScript stays false).

\* Sockets the tab may construct in one run against the server.
MaxJoinedSockets == 2

\* The server's transport whose peer is socket s (none: the empty set).
TransportOf(s) == {t \in DOMAIN srv.ws : srv.ws[t].peer = s}

JoinedSocketLeft == NumSockets(tab) < MaxJoinedSockets

\* The server accepts the connection socket s is making.
ServerAccepts(s) ==
    /\ tab.sockets[s].readyState = "CONNECTING"
    /\ TransportOf(s) = {}
    /\ srv' = Accept(srv, s)
    /\ UNCHANGED <<tmuxAvailable, clientVars, storeVars>>

\* The server's answer to the opening handshake reaches socket s.
SocketOpens(s) ==
    /\ TransportOf(s) # {}
    /\ TransportOpens(s)

\* The init message socket s sent in onopen reaches the server.
InitArrives(s) ==
    /\ tab.sockets[s].initSent # "none"
    /\ \E t \in TransportOf(s) :
          /\ srv.ws[t].initHandler
          /\ ServerReceives(t, ClientMessage("init", tab.sockets[s].initSent,
                                             Undefined, Undefined))

\* The oldest control message the server wrote reaches socket s.
ControlMessageArrives(s) ==
    \E t \in TransportOf(s) :
        /\ srv.ws[t].sent # <<>>
        /\ OnControlMessage(s, Head(srv.ws[t].sent))
        /\ srv' = [srv EXCEPT !.ws[t].sent = Tail(@)]

\* The transport of socket s is lost, or the server has destroyed it.
SocketLost(s) == TransportCloses(s, 1006)

InitJoined ==
    /\ IdleClient
    /\ IdleStore
    /\ tmuxAvailable \in BOOLEAN
    /\ \E live \in SUBSET OldSessions :
          /\ ~tmuxAvailable => live = {}
          /\ srv = InitSrv(live)

NextJoined ==
    \/ JoinedSocketLeft /\ Mount
    \/ JoinedSocketLeft /\ ReconnectTimerFires("ref")
    \/ \E s \in Sockets : ServerAccepts(s)
    \/ \E s \in Sockets : SocketOpens(s)
    \/ \E s \in Sockets : InitArrives(s)
    \/ \E s \in Sockets : ControlMessageArrives(s)
    \/ \E s \in Sockets : SocketLost(s)
    \/ \E t \in DOMAIN srv.ws : InitTimeout(t)
    \/ \E c \in DOMAIN srv.conn, how \in {"detach", "end"} : BackendExits(c, how)
    \/ \E c \in DOMAIN srv.conn : PtyExit(c)
    \/ \E t \in DOMAIN srv.ws : ServerWsClosed(t)

SpecJoined == InitJoined /\ [][NextJoined]_vars

\* The session selector and the server.
InitSelector ==
    /\ tab = InitTab
    /\ urlValid \in BOOLEAN
    /\ hist = InitHist
    /\ sel = InitSel
    /\ IdleStore
    /\ tmuxAvailable \in BOOLEAN
    /\ \E live \in SUBSET OldSessions :
          /\ ~tmuxAvailable => live = {}
          /\ srv = InitSrv(live)

NextSelector ==
    \/ SelectorMount
    \/ SelectorAccepted
    \/ SelectorOpens
    \/ ListSessionsArrives
    \/ SelectorConnectionTimeout
    \/ SelectorMessage
    \/ SelectorFails
    \/ SelectorClosed
    \/ SelectorUnmount
    \/ \E t \in DOMAIN srv.ws : InitTimeout(t)
    \/ \E c \in DOMAIN srv.conn, how \in {"detach", "end"} : BackendExits(c, how)
    \/ \E c \in DOMAIN srv.conn : PtyExit(c)
    \/ Ping
    \/ \E t \in DOMAIN srv.ws : PongArrives(t)
    \/ TimeoutCheck
    \/ \E t \in DOMAIN srv.ws : ServerWsClosed(t)

SpecSelector == InitSelector /\ [][NextSelector]_vars

\* Timers fire, and what is on its way to the selector or to the server
\* arrives.
SpecSelectorFair ==
    /\ SpecSelector
    /\ WF_vars(SelectorAccepted)
    /\ WF_vars(SelectorOpens)
    /\ WF_vars(ListSessionsArrives)
    /\ WF_vars(SelectorConnectionTimeout)
    /\ WF_vars(SelectorMessage)
    /\ WF_vars(SelectorClosed)
    /\ \A t \in 1..MaxTransports : WF_vars(t \in DOMAIN srv.ws /\ InitTimeout(t))

\* The close event of a transport the server is closing or has terminated
\* (ws destroys the socket when the peer does not complete the close).
CloseCompletes(t) ==
    /\ t \in DOMAIN srv.ws
    /\ srv.ws[t].readyState = "CLOSING"
    /\ ServerWsClosed(t)

\* The server's timers keep firing, pongs in flight arrive, and a close the
\* server started completes.
SpecServerFair ==
    /\ SpecServer
    /\ WF_vars(Ping)
    /\ WF_vars(TimeoutCheck)
    /\ \A t \in 1..MaxTransports :
          WF_vars(t \in DOMAIN srv.ws /\ PongArrives(t)) /\ WF_vars(CloseCompletes(t))


(***************************************************************************)
(* Properties                                                              *)
(***************************************************************************)

--------------------------------------------------------------------------
\* Secrets in a persisted value.

HasSecret(item) ==
    /\ item # NoItem
    /\ \E i \in DOMAIN item.sessions :
          /\ "remoteInfo" \in DOMAIN item.sessions[i]
          /\ {"password", "passphrase"} \cap DOMAIN item.sessions[i].remoteInfo # {}

\* C1: whatever store is passed to saveSessionStore, and whichever of the two
\* writes succeeds, the value in localStorage holds no password and no
\* passphrase on any record's remoteInfo.
C1_NoSecretPersisted == ~HasSecret(storage)

--------------------------------------------------------------------------
\* Client reconnection controller.

CurrentSocket == tab.sockets[tab.wsRef]

\* The terminal failed state: attemptReconnect found the counter at the bound.
Failed == tab.connectionState = "error" /\ tab.maxAttemptsRaised

NoReconnectPending == ~tab.reconnectTimeoutRef /\ tab.orphanTimers = 0

NoLiveSocket ==
    \A s \in Sockets : tab.sockets[s].readyState \in {"NONE", "CLOSED"}

\* C3: in a run made of abnormal closures followed by a transport that opens,
\* the controller is connected, has made exactly as many retries as there were
\* closures (4 after 4 closures), and its retry counter is 0.
C3_ConnectedAfterRetries ==
    (~hist.offScript /\ tab.wsRef # 0 /\ CurrentSocket.readyState = "OPEN") =>
        /\ tab.connectionState = "connected"
        /\ tab.reconnectAttempts = 0
        /\ hist.retries = hist.abrupt
        /\ NoReconnectPending

C3_Witness ==
    /\ ~hist.offScript
    /\ tab.wsRef # 0 /\ CurrentSocket.readyState = "OPEN"
    /\ hist.abrupt = 4 /\ hist.retries = 4
    /\ tab.connectionState = "connected"

\* C4 as claimed: after 5 consecutive abnormal closures with no handshake in
\* between, the controller is failed and no reconnect is scheduled.
C4_FailedAfterFifthClosure ==
    (~hist.offScript /\ hist.sinceHandshake = 5) => (Failed /\ NoReconnectPending)

\* C4 as amended: the 5th consecutive abnormal closure (counted since the
\* counter was last reset, which onopen does) still schedules a retry, the
\* fifth; the 6th moves the controller to failed, with no reconnect scheduled
\* and no socket left; the controller is failed in no other case.
C4_FailedAfterSixthClosure ==
    ~hist.offScript =>
        /\ hist.sinceOpen <= 6
        /\ hist.sinceOpen <= 5 => ~Failed /\ ~tab.maxAttemptsRaised
        /\ hist.sinceOpen = 5 =>
              /\ tab.reconnectAttempts = 5
              /\ \/ tab.connectionState = "reconnecting" /\ tab.reconnectTimeoutRef
                 \/ /\ tab.connectionState = "connecting"
                    /\ CurrentSocket.readyState = "CONNECTING"
        /\ hist.sinceOpen = 6 => Failed /\ NoReconnectPending /\ NoLiveSocket

C4_Witness == ~hist.offScript /\ hist.sinceOpen = 6 /\ Failed /\ hist.retries = 5

\* C5: the retry counter goes down (to zero) only in a step in which a
\* session_info is received.
C5_ResetOnlyOnHandshake ==
    [][tab'.reconnectAttempts < tab.reconnectAttempts =>
          \E s \in Sockets :
              tab'.sockets[s].gotSessionInfo /\ ~tab.sockets[s].gotSessionInfo]_vars

--------------------------------------------------------------------------
\* WebSocket server.

LastSent(S, t) == S.ws[t].sent[Len(S.ws[t].sent)]

LocalInit(id) == ClientMessage("init", id, Undefined, Undefined)

\* What initializeLocalPty must report for requestedId, given the live tmux
\* sessions: a live session of that name is attached (isNewSession false,
\* the same id); otherwise a session is created (isNewSession true) under
\* requestedId, or under an id no live session has when requestedId is missing.
ReportsAttachOrCreate(live, requestedId, m) ==
    /\ m.type = "session_info"
    /\ IF requestedId # "" /\ requestedId \in live
       THEN m.isNewSession = FALSE /\ m.sessionId = requestedId
       ELSE /\ m.isNewSession = TRUE
            /\ requestedId # "" => m.sessionId = requestedId
            /\ requestedId = "" => m.sessionId # "" /\ m.sessionId \notin live

\* C6: with tmux available, every call of initializeLocalPty (by an init
\* message of the local kind, or by the handshake timer with no id) on an open
\* transport reports isNewSession = false and the requested id if that id
\* names a live tmux session, and isNewSession = true otherwise, with the
\* requested id or, if none was given, a freshly generated one.
C6_AttachOrCreate ==
    [][tmuxAvailable =>
         \A t \in DOMAIN srv.ws :
            /\ \A id \in ReqIds :
                  (srv.ws[t].initHandler /\ ServerReceives(t, LocalInit(id)))
                     => ReportsAttachOrCreate(srv.tmux, id, LastSent(srv', t))
            /\ (srv.ws[t].readyState = "OPEN" /\ InitTimeout(t))
                  => ReportsAttachOrCreate(srv.tmux, "", LastSent(srv', t))]_vars

\* C7: a tmux session ends only in a step that processes a close_session
\* message or in which a backend exits by itself; no close event of a
\* transport, no sweep and no listener that follows from them ends one.
C7_CloseKeepsTmuxSession ==
    [][\/ srv.tmux \subseteq srv'.tmux
       \/ \E t \in DOMAIN srv.ws, msg \in ClientMessages :
             msg.type = "close_session" /\ ServerReceives(t, msg)
       \/ \E c \in DOMAIN srv.conn : BackendExits(c, "end")]_vars

\* A transport has closed under a tmux client that was running; the close
\* listener has killed the client and removed the entry, and the session the
\* client was attached to is alive.
C7_Witness ==
    \E c \in DOMAIN srv.conn :
        /\ srv.conn[c].pty \in {"attach", "new"}
        /\ srv.conn[c].ptyState = "exiting"
        /\ ~srv.conn[c].inMap
        /\ srv.ws[srv.conn[c].ws].readyState = "CLOSED"
        /\ srv.conn[c].attached \in srv.tmux

\* C8: no bare shell is running and no remote connection is up on a transport
\* that has closed.
C8_TerminatedOnceClosed ==
    \A c \in DOMAIN srv.conn :
        srv.ws[srv.conn[c].ws].readyState = "CLOSED" =>
            /\ ~(srv.conn[c].pty = "bash" /\ srv.conn[c].ptyState = "running")
            /\ srv.conn[c].ssh # "up"

EntriesOf(S, t) == {c \in ConnectionsOf(S, t) : S.conn[c].inMap}

\* C9: a transport whose client has vanished is eventually closed, with no
\* entry of it left in the sessions Map.
C9_VanishedReclaimed ==
    \A t \in 1..MaxTransports :
        (t \in DOMAIN srv.ws /\ srv.ws[t].vanished)
            ~> /\ t \in DOMAIN srv.ws
               /\ srv.ws[t].readyState = "CLOSED"
               /\ EntriesOf(srv, t) = {}

\* The sweep has terminated the transport of a vanished client whose backend
\* is running: the transport is closing, though no listener closed it.
C9_Witness ==
    \E t \in DOMAIN srv.ws :
        /\ srv.ws[t].vanished
        /\ srv.ws[t].readyState = "CLOSING"
        /\ ~srv.ws[t].isAlive
        /\ ConnectionsOf(srv, t) # {}
        /\ \A c \in ConnectionsOf(srv, t) :
              srv.conn[c].ptyState = "running" /\ srv.conn[c].inMap

\* C10: the sweep terminates an open transport only if a ping sent to it is
\* unanswered: its client has vanished, or the pong is still on its way.
C10_SweepOnlyUnanswered ==
    [][TimeoutCheck =>
         \A t \in DOMAIN srv.ws :
            (srv.ws[t].readyState = "OPEN" /\ srv'.ws[t].readyState = "CLOSING")
               => (srv.ws[t].vanished \/ srv.ws[t].pongs > 0)]_vars

--------------------------------------------------------------------------
\* The tab and the server.

\* Socket s is the tab's current one, made by a reconnect after an abnormal
\* closure.
Reconnected(s) == ~hist.offScript /\ hist.abrupt >= 1 /\ tab.wsRef = s

\* In this step the server starts a backend for transport t.
StartsBackend(t) ==
    /\ Len(srv'.conn) = Len(srv.conn) + 1
    /\ srv'.conn[Len(srv'.conn)].ws = t

\* In this step the server attaches transport t, which had no backend, to
\* the live tmux session id, creates no session, and answers session_info
\* with that id and isNewSession = false.
Reattaches(t, id) ==
    /\ StartsBackend(t)
    /\ ConnectionsOf(srv, t) = {}
    /\ srv'.conn[Len(srv'.conn)].pty = "attach"
    /\ srv'.conn[Len(srv'.conn)].attached = id
    /\ srv'.tmux = srv.tmux
    /\ srv'.ws[t].sent = Append(srv.ws[t].sent, SessionInfo(id, FALSE, TRUE, "local"))

\* The remembered id of the tab names a live tmux session and socket s has
\* sent it in its init message.
RememberedSessionAlive(s) ==
    /\ tmuxAvailable
    /\ tab.sockets[s].initSent = tab.sessionId
    /\ tab.sessionId \in srv.tmux

\* C2 as claimed: after an abrupt loss and a reconnect, with the tmux session
\* of the remembered id alive, the init carries the remembered id, and every
\* backend the server starts for the new transport is an attachment to that
\* session, answered by session_info with the same id and isNewSession =
\* false; no session is created.
C2_AlwaysReattaches ==
    [][\A s \in Sockets :
         /\ (Reconnected(s) /\ SocketOpens(s)) => tab'.sockets[s].initSent = tab.sessionId
         /\ \A t \in TransportOf(s) :
               (/\ Reconnected(s)
                /\ RememberedSessionAlive(s)
                /\ srv.ws[t].readyState = "OPEN"
                /\ StartsBackend(t)) => Reattaches(t, tab.sessionId)]_vars

\* C2 as amended: the same, for the backend the server starts when the init
\* arrives before the server's handshake timer has fired.
C2_ReattachesOnTimelyInit ==
    [][\A s \in Sockets :
         /\ (Reconnected(s) /\ SocketOpens(s)) => tab'.sockets[s].initSent = tab.sessionId
         /\ \A t \in TransportOf(s) :
               (/\ Reconnected(s)
                /\ RememberedSessionAlive(s)
                /\ srv.ws[t].initTimeout
                /\ InitArrives(s)) => Reattaches(t, tab.sessionId)]_vars

\* The tab has lost a transport, reconnected and received session_info, and
\* the new transport's only backend is a tmux client attached to the session
\* the tab remembers.
C2_Witness ==
    /\ Reconnected(tab.wsRef)
    /\ CurrentSocket.gotSessionInfo
    /\ hist.sinceHandshake = 0
    /\ \E t \in TransportOf(tab.wsRef) :
          /\ Cardinality(ConnectionsOf(srv, t)) = 1
          /\ \A c \in ConnectionsOf(srv, t) :
                /\ srv.conn[c].pty = "attach"
                /\ srv.conn[c].ptyState = "running"
                /\ srv.conn[c].attached = tab.sessionId

--------------------------------------------------------------------------
\* The session-store functions.

Called(fn) == lib.fn = fn /\ lib.calls >= 1

\* C11: the store validateSessionStore returns has no record with an empty
\* or missing id, name or tmuxSessionId, and its activeSessionId is null
\* (or not set) or the id of one of its records.
C11_ValidatedStoreConsistent ==
    (Called("validate") /\ ~lib.result.threw) =>
        LET S == lib.result.value
        IN  /\ \A i \in DOMAIN S.sessions : IsValidSession(S.sessions[i])
            /\ \/ Get(S, "activeSessionId") \in {"null", Undefined}
               \/ \E i \in DOMAIN S.sessions : S.sessions[i].id = S.activeSessionId

\* C12: migrateSessionStore applied to its own result returns it unchanged.
C12_MigrateIdempotent ==
    [][(Migrate /\ lib.calls = 1) => lib'.result = lib.result]_vars

\* A raw store of version 0 whose migration changed it has been migrated
\* twice.
C12_Witness ==
    /\ lib.fn = "migrate" /\ lib.calls = 2 /\ ~lib.result.threw
    /\ IsPlainObject(lib.arg[1])
    /\ "version" \notin DOMAIN lib.arg[1]
    /\ lib.result.value # lib.arg[1]
    /\ Len(lib.result.value.sessions) = 2

\* The records of a list whose lastAccessedAt does not parse as a time.
Unparsable(sessions) ==
    {sessions[i] : i \in {j \in DOMAIN sessions :
                             GetTime(Get(sessions[j], "lastAccessedAt")).nan}}

\* C13: whatever the age limit, the records cleanupOldSessions returns
\* include every record of its input whose lastAccessedAt does not parse,
\* in the order of the input.
C13_UnparsableKept ==
    (Called("cleanup") /\ ~lib.result.threw) =>
        Filter(lib.result.value, Unparsable(lib.arg[1]))
            = Filter(lib.arg[1], Unparsable(lib.arg[1]))

\* cleanupOldSessions has removed a record and kept an unparsable one.
C13_Witness ==
    /\ Called("cleanup") /\ ~lib.result.threw
    /\ Len(lib.result.value) < Len(lib.arg[1])
    /\ Unparsable(lib.result.value) # {}

\* "Terminal <max(N) + 1>" over every name of the list that matches
\* "Terminal <N>", "Terminal 1" if none does.
MaxBasedName(sessions) ==
    LET matching == {i \in DOMAIN sessions :
                       \E d \in DOMAIN DigitStrings : sessions[i].name = "Terminal " \o d}
    IN  IF matching = {} THEN "Terminal 1"
        ELSE "Terminal " \o
             ToString(Max({NameNumber(sessions[i].name, "Terminal") : i \in matching}) + 1)

\* C14: for kind local, getNextTerminalName returns the max-based name over
\* all the records of the list, whatever else the records hold.
C14_NextNameMaxBased ==
    (Called("nextName") /\ lib.arg[2] = "local") =>
        lib.result.value = MaxBasedName(lib.arg[1])

\* Two stores agree in version, activeSessionId, record order and every
\* record field that is not a secret.
SameButSecrets(S1, S2) ==
    /\ S1.version = S2.version
    /\ S1.activeSessionId = S2.activeSessionId
    /\ Len(S1.sessions) = Len(S2.sessions)
    /\ \A i \in DOMAIN S1.sessions :
          LET r1 == S1.sessions[i]
              r2 == S2.sessions[i]
          IN  /\ DOMAIN r1 = DOMAIN r2
              /\ \A k \in DOMAIN r1 \ {"remoteInfo"} : r1[k] = r2[k]
              /\ "remoteInfo" \in DOMAIN r1 =>
                    \A k \in (DOMAIN r1.remoteInfo \cup DOMAIN r2.remoteInfo)
                                \ {"password", "passphrase"} :
                        Get(r1.remoteInfo, k) = Get(r2.remoteInfo, k)

\* C15: a load after a save that met no storage error returns the saved
\* store, secrets aside.
C15_RoundTrip ==
    (Called("roundtrip") /\ storage = SavedItem(store, NoItem, "ok", "ok")) =>
        SameButSecrets(lib.result.value, store)

\* A store of two records, one remote with a password, has been saved and
\* loaded.
C15_Witness ==
    /\ Called("roundtrip") /\ storage = SavedItem(store, NoItem, "ok", "ok")
    /\ Len(store.sessions) = 2
    /\ store.activeSessionId = "ssh-b"
    /\ \E i \in DOMAIN store.sessions :
          /\ "remoteInfo" \in DOMAIN store.sessions[i]
          /\ Get(store.sessions[i].remoteInfo, "password") = "s3cret"

\* C20: whatever localStorage holds, initializeSessionStore returns, and the
\* store it returns has at least one record, no record with an empty or
\* missing id, name or tmuxSessionId, and the id of one of its records as
\* activeSessionId.
C20_InitializeUsable ==
    Called("initialize") =>
        /\ ~lib.result.threw
        /\ LET S == lib.result.value
           IN  /\ Len(S.sessions) >= 1
               /\ \A i \in DOMAIN S.sessions : IsValidSession(S.sessions[i])
               /\ \E i \in DOMAIN S.sessions : S.sessions[i].id = S.activeSessionId

--------------------------------------------------------------------------
\* The tab manager.

\* C16: the tab manager never shows more sessions than MAX_TABS, over
\* mounts with and without an initial tmux session id, creations, closes,
\* renames, reorderings and updates; isMaxTabsReached is true exactly from
\* MAX_TABS sessions on.
C16_NeverOverCapacity ==
    /\ Len(mgr.sessions) <= MAX_TABS
    /\ isMaxTabsReached(mgr.sessions) <=> Len(mgr.sessions) = MAX_TABS

--------------------------------------------------------------------------
\* Directory notifications.

\* C17: for every connection entry, no current_directory message carries an
\* empty directory, and no two consecutive ones carry the same directory,
\* the initial one sent at attach included.
C17_NoRepeatedDirectory ==
    \A c \in DOMAIN srv.conn :
        LET sent == srv.conn[c].notified
        IN  /\ \A i \in DOMAIN sent : sent[i] # ""
            /\ \A i \in 1..(Len(sent) - 1) : sent[i] # sent[i + 1]

\* An entry has sent the initial directory and two changes of it, and its
\* timer has since polled a directory it had already sent.
C17_Witness ==
    \E c \in DOMAIN srv.conn :
        /\ Len(srv.conn[c].notified) = 3
        /\ srv.conn[c].directoryPollingInterval
        /\ srv.moves = MaxMoves
        /\ getTmuxCurrentDirectory(srv, srv.conn[c].tmuxSessionId) = srv.conn[c].lastDirectory

--------------------------------------------------------------------------
\* The handshake timeout.

\* The transport t is open and no init message has been handled on it.
AwaitingHandshake(S, t) ==
    /\ S.ws[t].readyState = "OPEN"
    /\ S.ws[t].initTimeout
    /\ S.ws[t].initHandler

\* C18: when the handshake timer fires on an open transport that has had no
\* init message, the server makes one new local connection under the next
\* generated id, registers it, sends session_info for that id with
\* isNewSession true and kind local and no error, and leaves the transport
\* open: the state is the one an init without id and kind would have made,
\* but for the init listener, which stays.
C18_TimeoutStartsLocalSession ==
    [][\A t \in DOMAIN srv.ws :
          InitTimeout(t) /\ AwaitingHandshake(srv, t) =>
              LET id == GeneratedIds[srv.generated + 1]
                  c  == Len(srv.conn) + 1
              IN  /\ Len(srv'.conn) = c
                  /\ srv'.conn[c].ws = t
                  /\ srv'.conn[c].connectionType = "local"
                  /\ srv'.conn[c].inMap
                  /\ srv'.conn[c].ptyState = "running"
                  /\ srv'.conn[c].tmuxSessionId = id
                  /\ id \notin srv.tmux
                  /\ srv'.generated = srv.generated + 1
                  /\ srv'.ws[t].sent = <<SessionInfo(id, TRUE, tmuxAvailable, "local")>>
                  /\ srv'.ws[t].readyState = "OPEN"
                  /\ srv' = [handleInitMessage(srv, t, ClientMessage("init", "", Undefined,
                                                                     Undefined))
                               EXCEPT !.ws[t].initHandler = TRUE]]_vars

\* The timer has fired on an open transport with no init handled: the
\* transport is open and carries the session_info of a generated session.
C18_Witness ==
    \E t \in DOMAIN srv.ws :
        /\ srv.ws[t].readyState = "OPEN"
        /\ ~srv.ws[t].initTimeout
        /\ srv.ws[t].initHandler
        /\ srv.ws[t].sent = <<SessionInfo(GeneratedIds[1], TRUE, tmuxAvailable, "local")>>
        /\ \E c \in ConnectionsOf(srv, t) : srv.conn[c].inMap

--------------------------------------------------------------------------
\* A remote attach that fails.

\* An init of kind remote that carries no remoteInfo.
RemoteInitWithoutInfo == ClientMessage("init", "", "remote", Undefined)

\* What a failed remote attach does to its open transport t: one error
\* message more, nothing else, and the transport closing.
FailsOn(t) ==
    /\ srv'.ws[t].sent = Append(srv.ws[t].sent, ErrorMessage)
    /\ srv'.ws[t].readyState = "CLOSING"

\* C19: when sshConn.connect rejects, or an init names kind remote without
\* remoteInfo, on an open transport, the server sends one error message and
\* closes the transport; the attempt gets no entry in the sessions Map and
\* no session_info; a failed attempt stays failed, no other connection is
\* made for its transport, and an error is the last message of a transport.
C19_RemoteFailureClosesTransport ==
    /\ [][\A c \in DOMAIN srv.conn :
             RemoteConnectRejects(c) /\ srv.ws[srv.conn[c].ws].readyState = "OPEN" =>
                 /\ FailsOn(srv.conn[c].ws)
                 /\ ~srv'.conn[c].inMap
                 /\ srv'.conn[c].ssh = "failed"
                 /\ Len(srv'.conn) = Len(srv.conn)]_vars
    /\ [][\A t \in DOMAIN srv.ws :
             /\ ServerReceives(t, RemoteInitWithoutInfo)
             /\ srv.ws[t].initHandler
             => FailsOn(t) /\ srv'.conn = srv.conn]_vars
    /\ [][\A c \in DOMAIN srv.conn :
             srv.conn[c].ssh = "failed" =>
                 /\ srv'.conn[c] = srv.conn[c]
                 /\ ConnectionsOf(srv', srv.conn[c].ws) = ConnectionsOf(srv, srv.conn[c].ws)]_vars
    /\ [](\A t \in DOMAIN srv.ws :
             \A i \in DOMAIN srv.ws[t].sent :
                 srv.ws[t].sent[i] = ErrorMessage => i = Len(srv.ws[t].sent))

\* sshConn.connect has rejected on an open transport: the transport is
\* closing and the error is all it carries.
C19_Witness ==
    \E c \in DOMAIN srv.conn :
        /\ srv.conn[c].ssh = "failed"
        /\ ~srv.conn[c].inMap
        /\ srv.ws[srv.conn[c].ws].readyState = "CLOSING"
        /\ srv.ws[srv.conn[c].ws].sent = <<ErrorMessage>>

--------------------------------------------------------------------------
\* The failed state and closures of the client controller.

\* The controller shows the state attemptReconnect sets when the reconnect
\* attempts are used up (SshTerminalTab.tsx:351-362).
FailedState == tab.connectionState = "error" /\ tab.error = "max"

\* C21: while the tab stays active, no step taken in the failed state
\* constructs a socket or moves the controller to connecting or reconnecting.
C21_FailedIsTerminal ==
    [][FailedState /\ tab.mounted /\ tab'.mounted =>
          /\ NumSockets(tab') = NumSockets(tab)
          /\ tab'.connectionState \notin {"connecting", "reconnecting"}]_vars
\* The step is the close event of socket s with `code`, handled by onclose
\* with the intentional flag unset.
UnintendedClosure(s, code) ==
    /\ TransportCloses(s, code)
    /\ tab.sockets[s].handlers
    /\ ~tab.isIntentionalDisconnect

\* The step counts one more attempt and leaves a reconnect timer in the ref,
\* or ends in the failed state.
RetriesOrFails ==
    \/ /\ tab'.reconnectAttempts = tab.reconnectAttempts + 1
       /\ tab'.reconnectTimeoutRef
       /\ tab'.connectionState = "reconnecting"
    \/ /\ tab'.connectionState = "error" /\ tab'.error = "max"
       /\ tab'.reconnectAttempts = tab.reconnectAttempts

\* C22 as claimed: every closure handled with the intentional flag unset
\* counts an attempt and schedules a reconnect, or fails the controller,
\* whatever the close code.
C22_EveryClosureRetries ==
    [][\A s \in Sockets, code \in CloseCodes :
          UnintendedClosure(s, code) => RetriesOrFails]_vars

\* C22 as amended: so it is for every close code but 1000; a closure with
\* code 1000 leaves the controller disconnected, the counter as it was and
\* no reconnect timer more than before.
C22_UncleanClosureRetries ==
    [][\A s \in Sockets, code \in CloseCodes :
          UnintendedClosure(s, code) =>
              IF code # 1000 THEN RetriesOrFails
              ELSE /\ tab'.connectionState = "disconnected"
                   /\ tab'.reconnectAttempts = tab.reconnectAttempts
                   /\ tab'.reconnectTimeoutRef = tab.reconnectTimeoutRef
                   /\ tab'.orphanTimers = tab.orphanTimers
                   /\ NumSockets(tab') = NumSockets(tab)]_vars

\* An active tab whose socket has closed with code 1000, the flag unset:
\* disconnected, nothing scheduled, no socket left.
C22_Witness ==
    /\ tab.mounted
    /\ ~tab.isIntentionalDisconnect
    /\ tab.connectionState = "disconnected"
    /\ NoReconnectPending
    /\ NoLiveSocket
\* C23: the effect's cleanup sets the intentional flag and leaves the tab's
\* socket neither connecting nor open; when the socket it closed (the one
\* closed with code 1000) has its close event, the retry counter, the
\* reconnect timers, the sockets and the connection state stay as they were.
C23_IntendedCloseNeverRetries ==
    /\ [][Teardown =>
             /\ tab'.isIntentionalDisconnect
             /\ tab.wsRef # 0 =>
                    tab'.sockets[tab.wsRef].readyState \notin {"CONNECTING", "OPEN"}
             /\ tab'.reconnectAttempts = tab.reconnectAttempts
             /\ ~tab'.reconnectTimeoutRef
             /\ tab'.connectionState = tab.connectionState]_vars
    /\ [][\A s \in Sockets, code \in CloseCodes :
             TransportCloses(s, code) /\ tab.sockets[s].closeArg = 1000 =>
                 /\ tab'.reconnectAttempts = tab.reconnectAttempts
                 /\ tab'.reconnectTimeoutRef = tab.reconnectTimeoutRef
                 /\ tab'.orphanTimers = tab.orphanTimers
                 /\ tab'.connectionState = tab.connectionState
                 /\ NumSockets(tab') = NumSockets(tab)]_vars

\* The tab was torn down while connected and its socket has closed since:
\* no handler ran, the state still reads connected.
C23_Witness ==
    /\ ~tab.mounted
    /\ tab.isIntentionalDisconnect
    /\ NumSockets(tab) = 1
    /\ NoLiveSocket
    /\ tab.connectionState = "connected"
    /\ NoReconnectPending
\* C24: while the tab is torn down, no reconnect timer and no connection
\* timeout of it is pending, and no step constructs a socket for it.
C24_NoTimerAfterTeardown ==
    /\ [](~tab.mounted =>
             /\ NoReconnectPending
             /\ \A s \in Sockets : ~tab.sockets[s].connectionTimeout)
    /\ [][~tab.mounted /\ ~tab'.mounted => NumSockets(tab') = NumSockets(tab)]_vars
\* C25: with a valid URL, the retry counter is at most the number of
\* sockets that have failed or closed (each counts once), and at most one
\* reconnect timer is pending.
C25_FailureCountsOnce ==
    urlValid =>
        /\ tab.reconnectAttempts <=
               Cardinality({s \in Sockets : tab.sockets[s].readyState \in {"CLOSING", "CLOSED"}})
        /\ tab.orphanTimers = 0
--------------------------------------------------------------------------
\* The connection registry.

\* C26: an entry is in the sessions Map only for a transport that has not
\* closed.
C26_EntryOnlyForOpenTransport ==
    \A c \in DOMAIN srv.conn :
        srv.conn[c].inMap => srv.ws[srv.conn[c].ws].readyState # "CLOSED"

\* C27: attach-or-create has run at most once for every transport.
C27_OneAttachPerTransport ==
    \A t \in DOMAIN srv.ws : Cardinality(ConnectionsOf(srv, t)) <= 1

\* C28: no directory-polling timer is set for a connection whose transport
\* has closed.
C28_NoPollingAfterClose ==
    \A c \in DOMAIN srv.conn :
        srv.conn[c].directoryPollingInterval =>
            srv.ws[srv.conn[c].ws].readyState # "CLOSED"

\* The entries of the Map whose tmux client is running in session `name`.
RelayingFor(S, name) ==
    {c \in DOMAIN S.conn :
        S.conn[c].inMap /\ S.conn[c].ptyState = "running" /\ S.conn[c].attached = name}

\* C29: no tmux session has two entries of the Map relaying for it.
C29_BackendNotShared ==
    \A name \in SessionNames : Cardinality(RelayingFor(srv, name)) <= 1

\* The remote connections that are up under a name other than id.
UpUnderOtherName(S, id) ==
    {c \in DOMAIN S.conn : S.conn[c].ssh = "up" /\ S.conn[c].tmuxSessionId # id}

\* C30: a close_session handled by the streaming listeners of a transport
\* leaves no tmux session and no remote connection of the name it carries,
\* and leaves every tmux session and remote connection of another name as
\* it was.
C30_CloseSessionEndsNamedOnly ==
    [][\A t \in DOMAIN srv.ws, msg \in ClientMessages :
          /\ msg.type = "close_session"
          /\ msg.sessionId # ""
          /\ HandlersOf(srv, t) # {}
          /\ ServerReceives(t, msg)
          => /\ msg.sessionId \notin srv'.tmux
             /\ \A c \in DOMAIN srv.conn :
                   srv.conn[c].tmuxSessionId = msg.sessionId => srv'.conn[c].ssh # "up"
             /\ srv.tmux \ {msg.sessionId} \subseteq srv'.tmux
             /\ UpUnderOtherName(srv, msg.sessionId) \subseteq
                    UpUnderOtherName(srv', msg.sessionId)]_vars

(***************************************************************************)
(* The order of the server's messages.                                     *)
(***************************************************************************)

\* The session_info messages written to transport t.
SessionInfosSent(S, t) ==
    {i \in DOMAIN S.ws[t].sent : S.ws[t].sent[i].type = "session_info"}

\* Transport t was sent an error because no backend could be attached (the
\* error of a stream that ended later is not one).
AttachErrorSent(S, t) ==
    /\ \E i \in DOMAIN S.ws[t].sent : S.ws[t].sent[i] = ErrorMessage
    /\ \A c \in ConnectionsOf(S, t) : S.conn[c].ssh # "ended"

\* C31: a transport is sent at most one session_info, and exactly one once a
\* connection was made for it while it was open; no output and no
\* current_directory message is written to it before its session_info; a
\* transport that was sent an attach error is sent no session_info and no
\* output.
C31_OneSessionInfoFirst ==
    \A t \in DOMAIN srv.ws :
        /\ Cardinality(SessionInfosSent(srv, t)) <= 1
        /\ (\/ srv.ws[t].outputs > 0
            \/ \E c \in ConnectionsOf(srv, t) : srv.conn[c].notified # <<>>)
              => SessionInfosSent(srv, t) # {}
        /\ AttachErrorSent(srv, t)
              => SessionInfosSent(srv, t) = {} /\ srv.ws[t].outputs = 0

(***************************************************************************)
(* The tab manager's active tab and its ids.                               *)
(***************************************************************************)

\* The ids of the records of a session list.
IdsOf(sessions) == {sessions[i].id : i \in DOMAIN sessions}

\* The store in localStorage, if it holds one that parses.
PersistedStore == getSessionStore(storage)

\* C32: once the tab manager has loaded, its activeSessionId is null or the
\* id of one of its sessions, whatever tab operations were made, and so is
\* the activeSessionId of the store in localStorage.
C32_ActiveIsNullOrListed ==
    /\ ~mgr.loading =>
          mgr.activeSessionId = "null" \/ mgr.activeSessionId \in IdsOf(mgr.sessions)
    /\ storage # NoItem =>
          \/ ~Truthy(PersistedStore, "activeSessionId")
          \/ PersistedStore.activeSessionId \in IdsOf(PersistedStore.sessions)

\* No two records of the list have the same id.
UniqueIds(sessions) ==
    \A i, j \in DOMAIN sessions :
        i # j => Get(sessions[i], "id") # Get(sessions[j], "id")

\* C33: the store initializeSessionStore returns, whatever localStorage
\* holds, has no two records with the same id, and neither has the session
\* list of the tab manager after any creations and closes.
C33_UniqueIds ==
    /\ Called("initialize") /\ ~lib.result.threw => UniqueIds(lib.result.value.sessions)
    /\ ~mgr.loading => UniqueIds(mgr.sessions)

(***************************************************************************)
(* What initializeSessionStore and the legacy migration leave behind.      *)
(***************************************************************************)

\* C34: when initializeSessionStore returns and localStorage accepts what
\* is written to it, localStorage holds the returned store afterwards: it
\* held it before the call, or the call has saved it.
C34_InitializePersists ==
    [][\A retry \in RetryOutcomes :
          Initialize("ok", retry) /\ ~lib'.result.threw
              => storage' = SavedItem(lib'.result.value, NoItem, "ok", "ok")]_(lib.calls)

\* The store made from the legacy marker: one local record named by it,
\* which is the active one.
MadeFromMarker(S, marker) ==
    /\ Len(S.sessions) = 1
    /\ S.sessions[1].id = marker
    /\ S.sessions[1].tmuxSessionId = marker
    /\ S.sessions[1].connectionType = "local"
    /\ S.activeSessionId = marker

\* C35: with the legacy marker set, migrateFromLegacySession returns the
\* store made from it, leaves that store in localStorage and removes the
\* marker; a call that finds no marker, as every later call does, returns
\* null and leaves localStorage as it is.
C35_LegacyMigrationOnce ==
    [][\A first \in SetItemOutcomes, retry \in RetryOutcomes :
          MigrateLegacy(first, retry) =>
              IF legacy \notin {Absent, ""}
              THEN /\ lib'.result.value # JsNull
                   /\ MadeFromMarker(lib'.result.value, legacy)
                   /\ storage' = SavedItem(lib'.result.value, NoItem, "ok", "ok")
                   /\ legacy' = Absent
              ELSE /\ lib'.result.value = JsNull
                   /\ storage' = storage
                   /\ legacy' = legacy]_(lib.calls)

\* A save whose setItem calls end as first and retry writes something.
SaveSucceeds(first, retry) == first = "ok" \/ (first = "quota" /\ retry = "ok")

\* C35, amended: with the legacy marker set, migrateFromLegacySession
\* returns the store made from it and removes the marker, and localStorage
\* holds that store afterwards if it accepted the write and what it held
\* before if not; a call that finds no marker, as every later call does,
\* returns null and leaves localStorage as it is.
C35_LegacyMigrationOnceIfSaved ==
    [][\A first \in SetItemOutcomes, retry \in RetryOutcomes :
          MigrateLegacy(first, retry) =>
              IF legacy \notin {Absent, ""}
              THEN /\ lib'.result.value # JsNull
                   /\ MadeFromMarker(lib'.result.value, legacy)
                   /\ storage' = IF SaveSucceeds(first, retry)
                                 THEN SavedItem(lib'.result.value, NoItem, "ok", "ok")
                                 ELSE storage
                   /\ legacy' = Absent
              ELSE /\ lib'.result.value = JsNull
                   /\ storage' = storage
                   /\ legacy' = legacy]_(lib.calls)

\* The marker ssh-old was migrated by a first call, and a second call has
\* returned null.
C35_Witness ==
    /\ lib.fn = "migrateLegacy" /\ lib.calls = 2
    /\ lib.result.value = JsNull
    /\ legacy = Absent
    /\ storage = SavedItem(LegacyStore("ssh-old"), NoItem, "ok", "ok")

(***************************************************************************)
(* Remote authentication.                                                  *)
(***************************************************************************)

\* The credentials a remote info carries.
CredentialsOf(info) == {k \in {"password", "privateKey"} : Truthy(info, k)}

\* C36: SshRemoteConnection.connect calls client.connect only for a remote
\* info that carries exactly one of password and private key, and then
\* with that credential; with both or neither it rejects.
C36_ExactlyOneCredential ==
    Called("connect") =>
        /\ Cardinality(CredentialsOf(lib.arg[1])) # 1 => lib.result.threw
        /\ ~lib.result.threw => lib.result.value \ {"passphrase"} = CredentialsOf(lib.arg[1])

(***************************************************************************)
(* Messages the server has no use for, and the session selector.           *)
(***************************************************************************)

\* C37: in every state of the server, a malformed message received on an
\* open transport changes nothing: no entry of the sessions Map, no backend,
\* no timer, nothing sent, and the transport and its listeners stay as they
\* are for the messages that follow.
C37_MalformedIgnored ==
    \A t \in DOMAIN srv.ws, msg \in MalformedMessages :
        srv.ws[t].readyState = "OPEN" => OnMessage(srv, t, msg) = srv

\* An open transport on which a malformed message is handed to
\* handleInitMessage and to the message listener of a backend that relays.
C37_Witness ==
    \E t \in DOMAIN srv.ws :
        /\ srv.ws[t].readyState = "OPEN" /\ ~srv.ws[t].vanished
        /\ srv.ws[t].initHandler
        /\ \E c \in HandlersOf(srv, t) : srv.conn[c].inMap /\ srv.conn[c].ptyState = "running"

\* C38: a selector that has opened its transport and sent list_sessions
\* leaves the loading state in the end, and the server makes no connection,
\* and so no backend and no entry of the sessions Map, for the selector's
\* transport.
C38_DiscoveryEndsWithoutBackend ==
    /\ [](\A t \in SelectorTransport : ConnectionsOf(srv, t) = {})
    /\ (sel.mounted /\ sel.readyState = "OPEN")
          ~> (sel.loadingState # "loading" \/ ~sel.mounted)

(***************************************************************************)
(* One transport per tab, and tab names.                                   *)
(***************************************************************************)

\* The sockets of the tab that are connecting or open.
LiveSockets(c) == {s \in Sockets : c.sockets[s].readyState \in {"CONNECTING", "OPEN"}}

\* C39: at most one socket of the tab is connecting or open; when the
\* controller constructs a socket, all it constructed before are closing
\* or closed.
C39_OneLiveSocket == Cardinality(LiveSockets(tab)) <= 1

\* The display names of the records of a list.
NamesOf(sessions) == {sessions[i].name : i \in DOMAIN sessions}

\* C40: the name getNextTerminalName returns is the name of no record of
\* the list it was given, whatever the connection kind of the record.
C40_NextNameIsFresh ==
    Called("nextName") => lib.result.value \notin NamesOf(lib.arg[1])

====
